---- MODULE Spec2Model ----
(***************************************************************************)
(* A model of stitcher: the target resolution pass (analyzer.rs), the      *)
(* target database (target_database.rs), the traversal (nodes.rs),         *)
(* namespace migration (bundle.rs) and the splice and link pipelines       *)
(* (bundle_set.rs, main.rs).                                               *)
(*                                                                         *)
(* Strings the code inspects character by character (identifiers, html     *)
(* ids, database keys) are sequences of one-character strings.  Paths are  *)
(* records [abs, parts] of std::path components.  Option<T> is a sequence  *)
(* of length 0 (None) or 1 (Some).                                         *)
(***************************************************************************)
EXTENDS Integers, Sequences, FiniteSets, TLC

VARIABLES
    page,               \* TargetPass1.page: Option<FileId>
    target_counter,     \* TargetPass1.target_counter: HashMap<String, u32>
    local_definitions,  \* TargetDatabase.local_definitions
    visited,            \* the Target nodes enter_node has been applied to, as it left them
    pass_panicked,      \* an unwrap in the pass has panicked
    element,            \* the BundleElement migrate is applied to
    original,           \* that element as it was read from its bundle
    namespace,          \* the namespace passed to migrate
    applied,            \* how many times migrate has been applied to the element
    bundles,            \* BundleSet.bundles: the input bundles (metadata, archive)
    n_cpus,             \* available_parallelism: the threads of the pool
    task,               \* per bundle, its producer task: queued, running, done, panicked
    index,              \* per bundle, BundleIntoIterator.index (next archive entry)
    channel,            \* the packets sent on tx and not yet received from rx
    writer,             \* the writer thread: running, finished, failed, panicked
    stored_assets,      \* the hashes of the assets written
    out_bundle,         \* the entries started in the output archive, in order
    sealed,             \* out_bundle.finish() has been called
    skipped,            \* where the assets skipped as duplicates came from
    main,               \* the thread running splice
    last_call,          \* the last operation on the TargetDatabase and what it returned
    link_bundles,       \* BundleSet.bundles as link sees them (metadata, archive)
    link_cpus,          \* available_parallelism in link: the threads of its pool
    link_task,          \* per bundle, its link job: queued, running, done, panicked
    link_index,         \* per bundle, BundleIntoIterator.index in its link job
    link_page,          \* per bundle, its TargetPass1.page
    link_counter,       \* per bundle, its TargetPass1.target_counter
    link_nodes,         \* per bundle, the nodes of the current document still to enter
    link_pc,            \* per bundle, where its job is: iterate, enter, lock, define
    link_pending,       \* per bundle, the TargetIdentifiers still to register, html id
    db_lock,            \* the Mutex around the database: 0 free, b held, -1 poisoned
    link_visited,       \* per bundle, the Targets its pass entered, as it left them
    db_log,             \* the define_local_target calls made so far: who, for which Target
    link_main,          \* the thread running link
    trav_tree,          \* the node run_analyzer is called on
    trav_frames,        \* the calls of run_analyzer_inner under way: where, which child next
    fileid_stack,       \* the FileIdStack of the traversal
    trav_log            \* the calls made to the visitor: hook, where, the stack it saw

passVars == <<page, target_counter, local_definitions, visited, pass_panicked>>
migrateVars == <<element, original, namespace, applied>>
spliceVars == <<bundles, n_cpus, task, index, channel, writer, stored_assets,
                out_bundle, sealed, skipped, main>>

dbVars == <<last_call>>
linkVars == <<link_bundles, link_cpus, link_task, link_index, link_page, link_counter,
              link_nodes, link_pc, link_pending, db_lock, link_visited, db_log, link_main>>

travVars == <<trav_tree, trav_frames, fileid_stack, trav_log>>

vars == <<passVars, migrateVars, spliceVars, dbVars, linkVars, travVars>>

----------------------------------------------------------------------------
(* Generic helpers *)

None == <<>>
Some(x) == <<x>>

SeqsUpTo(S, n) == UNION {[1..k -> S] : k \in 0..n}

IsInjective(s) == \A i, j \in 1..Len(s) : s[i] = s[j] => i = j

RECURSIVE Concat(_)
Concat(ss) == IF ss = <<>> THEN <<>> ELSE Head(ss) \o Concat(Tail(ss))

RECURSIVE SelectIdx(_, _, _)
\* the subsequence of s at the indices i (ascending from `from`) with Keep[i]
SelectIdx(s, Keep, from) ==
    IF from > Len(s) THEN <<>>
    ELSE (IF Keep[from] THEN <<s[from]>> ELSE <<>>) \o SelectIdx(s, Keep, from + 1)

\* the index of the maximal element, the first one when several are equally maximal
MaxByKeyFirst(keys) ==
    IF keys = <<>> THEN 0
    ELSE CHOOSE i \in 1..Len(keys) :
            /\ \A j \in 1..Len(keys) : keys[j] <= keys[i]
            /\ \A j \in 1..(i - 1) : keys[j] < keys[i]

\* Iterator::max_by_key: the index of the maximal element, the LAST one when
\* several are equally maximal; 0 for an empty sequence (None).
max_by_key(keys) ==
    IF keys = <<>> THEN 0
    ELSE CHOOSE i \in 1..Len(keys) :
            /\ \A j \in 1..Len(keys) : keys[j] <= keys[i]
            /\ \A j \in (i + 1)..Len(keys) : keys[j] < keys[i]

\* str::len: the length in UTF-8 bytes ("U00E9" stands for a two-byte letter)
ByteLen(str) == Len(str) + Cardinality({i \in 1..Len(str) : str[i] = "U00E9"})

\* format!("{}", n) of an unsigned integer
Digit(d) == <<"0", "1", "2", "3", "4", "5", "6", "7", "8", "9">>[d + 1]

RECURSIVE ToDecimal(_)
ToDecimal(n) == IF n < 10 THEN <<Digit(n)>> ELSE ToDecimal(n \div 10) \o <<Digit(n % 10)>>

----------------------------------------------------------------------------
(* analyzer.rs: make_html5_id *)

\* the characters \w matches (Unicode letters, digits, connector punctuation);
\* "U00E9" stands for the non-ASCII letter e-acute
WordChars == {"a", "b", "c", "d", "e", "l", "s", "t", "1", "2", "_", "U00E9"}

\* PAT_INVALID_ID_CHARACTERS = [^\w_\.\-]
PAT_INVALID_ID_CHARACTERS(c) == c \notin (WordChars \cup {"_", ".", "-"})

Unnamed == <<"u", "n", "n", "a", "m", "e", "d">>

make_html5_id_AlwaysFallback(orig) ==
    LET clean_id == [i \in 1..Len(orig) |->
                        IF PAT_INVALID_ID_CHARACTERS(orig[i]) THEN "-" ELSE orig[i]]
    IN  IF \A i \in 1..Len(clean_id) : clean_id[i] = "-" THEN Unnamed ELSE clean_id

make_html5_id(orig) ==
    LET clean_id == [i \in 1..Len(orig) |->
                        IF PAT_INVALID_ID_CHARACTERS(orig[i]) THEN "-" ELSE orig[i]]
    IN  IF clean_id = <<>> THEN Unnamed ELSE clean_id

----------------------------------------------------------------------------
(* target_database.rs *)

\* PAT_WHITESPACE = \s+
PAT_WHITESPACE(c) == c \in {" ", "\t", "\n"}

RECURSIVE normalize_target(_)
\* every maximal run of whitespace is replaced by one space
normalize_target(target) ==
    IF target = <<>> THEN <<>>
    ELSE IF PAT_WHITESPACE(Head(target))
         THEN IF Len(target) > 1 /\ PAT_WHITESPACE(target[2])
              THEN normalize_target(Tail(target))
              ELSE <<" ">> \o normalize_target(Tail(target))
         ELSE <<Head(target)>> \o normalize_target(Tail(target))

CountDots(x) == Cardinality({i \in 1..Len(x) : x[i] = "."})

\* targets.iter().max_by_key(|x| x.matches('.').count()): None for no targets
canonical_name_FirstWins(targets) ==
    LET i == MaxByKeyFirst([k \in 1..Len(targets) |-> CountDots(targets[k])])
    IN  IF i = 0 THEN None ELSE Some(targets[i])

canonical_name_of(targets) ==
    LET i == max_by_key([k \in 1..Len(targets) |-> CountDots(targets[k])])
    IN  IF i = 0 THEN None ELSE Some(targets[i])

DbKey(domain, name, target) == domain \o <<":">> \o name \o <<":">> \o normalize_target(target)

LocalDefinition(canonical, pageid, title, html5_id) ==
    [canonical_name |-> canonical, fileid |-> pageid, title |-> title, html5_id |-> html5_id]

\* a faulty variant: a new definition replaces the list of its key
PushDefinition_Overwrite(defs, key, def) ==
    IF key \in DOMAIN defs
    THEN [defs EXCEPT ![key] = <<def>>]
    ELSE (key :> <<def>>) @@ defs

\* self.local_definitions.entry(key).or_default().push(def)
PushDefinition(defs, key, def) ==
    IF key \in DOMAIN defs
    THEN [defs EXCEPT ![key] = Append(@, def)]
    ELSE (key :> <<def>>) @@ defs

RECURSIVE PushAll(_, _, _, _, _)
PushAll(defs, domain, name, targets, def) ==
    IF targets = <<>> THEN defs
    ELSE PushAll(PushDefinition(defs, DbKey(domain, name, Head(targets)), def),
                 domain, name, Tail(targets), def)

\* TargetDatabase::define_local_target; the unwrap of the canonical name panics
\* when `targets` is empty, before anything is inserted
define_local_target(defs, domain, name, targets, pageid, title, html5_id) ==
    LET canonical == canonical_name_of(targets)
    IN  IF canonical = None
        THEN [panicked |-> TRUE, defs |-> defs]
        ELSE [panicked |-> FALSE,
              defs |-> PushAll(defs, domain, name, targets,
                               LocalDefinition(canonical[1], pageid, title, html5_id))]

----------------------------------------------------------------------------
(* nodes.rs: the node variants the pass distinguishes *)

TextNode == [type |-> "text"]

TargetIdentifier(ids) == [type |-> "target_identifier", ids |-> ids, children |-> <<>>]

Target(domain, name, children) ==
    [type |-> "target", domain |-> domain, name |-> name,
     children |-> children, html_id |-> None]

----------------------------------------------------------------------------
(* analyzer.rs: TargetPass1::enter_node *)

\* the TargetIdentifier children of a Target, in stored order
Identifiers(target) ==
    SelectIdx(target.children,
              [i \in 1..Len(target.children) |->
                    target.children[i].type = "target_identifier"], 1)

LongestOf_FirstWins(strs) ==
    LET i == MaxByKeyFirst([k \in 1..Len(strs) |-> ByteLen(strs[k])])
    IN  IF i = 0 THEN None ELSE Some(strs[i])

\* strs.iter().max_by_key(|s| s.len())
LongestOf(strs) ==
    LET i == max_by_key([k \in 1..Len(strs) |-> ByteLen(strs[k])])
    IN  IF i = 0 THEN None ELSE Some(strs[i])

\* identifiers.iter().filter_map(|node| node.ids.iter().max_by_key(|id| id.len()))
Candidates(identifiers) ==
    Concat([i \in 1..Len(identifiers) |-> LongestOf(identifiers[i].ids)])

\* a faulty variant: a Target without identifiers is given the empty identifier
ChosenId_EmptyDefault(target) ==
    LET chosen == LongestOf(Candidates(Identifiers(target)))
    IN  IF chosen = None THEN Some(<<>>) ELSE chosen

\* candidates.iter().max_by_key(|candidate| candidate.len()): Option<String>
ChosenId(target) == LongestOf(Candidates(Identifiers(target)))

\* format!("{}-{}-{}", domain, name, make_html5_id(chosen_id))
CandidateHtmlId(target, chosen_id) ==
    target.domain \o <<"-">> \o target.name \o <<"-">> \o make_html5_id(chosen_id)

\* *self.target_counter.entry(key).or_insert(0)
OrInsertZero(counter, key) == IF key \in DOMAIN counter THEN counter ELSE (key :> 0) @@ counter

\* self.target_counter.entry(key).and_modify(|c| *c += 1): a vacant entry stays vacant
AndModifyIncrement(counter, key) ==
    IF key \in DOMAIN counter THEN [counter EXCEPT ![key] = @ + 1] ELSE counter

\* analyzer.rs:105-116, the disambiguation of one candidate html id
Disambiguate(counter, candidate) ==
    LET inserted == OrInsertZero(counter, candidate)
        n        == inserted[candidate]
        html_id  == IF n > 0 THEN candidate \o <<"-">> \o ToDecimal(n) ELSE candidate
    IN  [html_id |-> html_id, counter |-> AndModifyIncrement(inserted, html_id)]

RECURSIVE RegisterAll(_, _, _, _, _)
\* the loop over the identifiers under the database lock; stops at the first panic
RegisterAll(defs, target, identifiers, pageid, html_id) ==
    IF identifiers = <<>> THEN [panicked |-> FALSE, defs |-> defs]
    ELSE LET r == define_local_target(defs, target.domain, target.name,
                                      Head(identifiers).ids, pageid,
                                      Head(identifiers).children, html_id)
         IN  IF r.panicked THEN r
             ELSE RegisterAll(r.defs, target, Tail(identifiers), pageid, html_id)

\* enter_node on a Target node: the node, the counters and the database afterwards
EnterTarget(counter, defs, pg, target) ==
    LET chosen == ChosenId(target)
    IN  IF chosen = None
        THEN [node |-> target, counter |-> counter, defs |-> defs, panicked |-> FALSE]
        ELSE LET d == Disambiguate(counter, CandidateHtmlId(target, chosen[1]))
             IN  IF pg = None
                 THEN [node |-> [target EXCEPT !.html_id = Some(d.html_id)],
                       counter |-> d.counter, defs |-> defs, panicked |-> TRUE]
                 ELSE LET r == RegisterAll(defs, target, Identifiers(target), pg[1], d.html_id)
                      IN  [node |-> [target EXCEPT !.html_id = Some(d.html_id)],
                           counter |-> d.counter, defs |-> r.defs, panicked |-> r.panicked]

----------------------------------------------------------------------------
(* The resolution pass as a state machine: one TargetPass1, one database *)

Std   == <<"s", "t", "d">>
Label == <<"l", "a", "b", "e", "l">>

\* FileId { path } of a relative path
FileId(parts) == [abs |-> FALSE, parts |-> parts]

PageIds == {FileId(<<"index.txt">>), FileId(<<"ref", "a.rst">>)}

PassInit ==
    /\ page = None
    /\ target_counter = <<>>
    /\ local_definitions = <<>>
    /\ visited = <<>>
    /\ pass_panicked = FALSE

\* TargetPass1::enter_page
EnterPage ==
    /\ ~pass_panicked
    /\ page = None
    /\ \E p \in PageIds : page' = Some(p)
    /\ UNCHANGED <<target_counter, local_definitions, visited, pass_panicked>>
    /\ UNCHANGED <<migrateVars, spliceVars, dbVars, linkVars, travVars>>

\* TargetPass1::enter_node, called by the traversal on the next node of the
\* page entered (BundleSet::link calls enter_page before it traverses)
EnterNode(node, maxVisited) ==
    /\ ~pass_panicked
    /\ page # None
    /\ Len(visited) < maxVisited
    /\ IF node.type = "target"
       THEN LET r == EnterTarget(target_counter, local_definitions, page, node)
            IN  /\ target_counter' = r.counter
                /\ local_definitions' = r.defs
                /\ visited' = Append(visited, r.node)
                /\ pass_panicked' = r.panicked
       ELSE /\ visited' = Append(visited, node)
            /\ UNCHANGED <<target_counter, local_definitions, pass_panicked>>
    /\ UNCHANGED page
    /\ UNCHANGED <<migrateVars, spliceVars, dbVars, linkVars, travVars>>

----------------------------------------------------------------------------
(* std::path as the code uses it: a path is its components; Unix paths *)

RelPath(parts) == [abs |-> FALSE, parts |-> parts]
AbsPath(parts) == [abs |-> TRUE, parts |-> parts]

\* Path::join: an absolute `path` replaces `base`, a relative one is appended
Join(base, path) ==
    IF path.abs THEN path ELSE [abs |-> base.abs, parts |-> base.parts \o path.parts]

\* a faulty variant: the first component (the namespace) instead of the last
file_name_FirstComponent(path) ==
    IF path.parts = <<>> THEN None ELSE Some(path.parts[1])

\* Path::file_name: the final component, None for no component and for ".."
file_name(path) ==
    IF path.parts = <<>> THEN None
    ELSE IF path.parts[Len(path.parts)] = ".." THEN None
    ELSE Some(path.parts[Len(path.parts)])

----------------------------------------------------------------------------
(* nodes.rs: the node variants migrate and the traversal distinguish.  Section *)
(* stands for the variants that own nothing but `children`.                    *)

Section(children) == [type |-> "section", children |-> children]

Root(fileid, children) == [type |-> "root", fileid |-> fileid, children |-> children]

Directive(argument, children) ==
    [type |-> "directive", argument |-> argument, children |-> children]

DefinitionListItem(term, children) ==
    [type |-> "definitionListItem", term |-> term, children |-> children]

\* InlineTarget flattens a Target: its children are the Target's
InlineTarget(children) == [type |-> "inline_target", children |-> children]

\* RefRole flattens a Role: its children are the Role's; fileid: Option<(String, String)>
RefRole(fileid, children) ==
    [type |-> "ref_role", fileid |-> fileid, url |-> None, children |-> children]

Document(page_id, filename, ast) ==
    [page_id |-> page_id, filename |-> filename, ast |-> ast]

\* NodeData::get_children: the child nodes the traversal descends into
get_children(node) ==
    IF node.type \in {"text", "ref_role", "inline_target"} THEN <<>> ELSE node.children

----------------------------------------------------------------------------
(* nodes.rs: Node::run_analyzer, one call of run_analyzer_inner per frame.  A *)
(* node is named by its path: the indices that lead to it from the node the   *)
(* traversal started on, through get_children.                                *)

\* analyzer::FileIdStack: new, push and pop
FileIdStackNew == <<>>
FileIdStackPush(stack, fileid) == Append(stack, fileid)
FileIdStackPop(stack) == SubSeq(stack, 1, Len(stack) - 1)

RECURSIVE NodeAt(_, _)
NodeAt(node, path) ==
    IF path = <<>> THEN node ELSE NodeAt(get_children(node)[Head(path)], Tail(path))

VisitorCall(hook, path, stack) == [hook |-> hook, path |-> path, stack |-> stack]

\* the start of run_analyzer_inner on the node at `path` (lines 106-113): the
\* fileid of a Root is pushed, then enter_node is called
TravCall(frames, stack, path) ==
    LET node == NodeAt(trav_tree, path)
        need_to_pop == node.type = "root"
        pushed == IF need_to_pop THEN FileIdStackPush(stack, node.fileid) ELSE stack
    IN  /\ fileid_stack' = pushed
        /\ trav_log' = Append(trav_log, VisitorCall("enter_node", path, pushed))
        /\ trav_frames' = Append(frames, [path |-> path, next |-> 1,
                                          need_to_pop |-> need_to_pop])

TravStarted == trav_log # <<>>
TravReturned == TravStarted /\ trav_frames = <<>>

\* node.run_analyzer(analyzer): a new stack, and the first call of run_analyzer_inner
TravRunAnalyzer ==
    /\ ~TravStarted
    /\ TravCall(<<>>, FileIdStackNew, <<>>)
    /\ UNCHANGED trav_tree
    /\ UNCHANGED <<passVars, migrateVars, spliceVars, dbVars, linkVars>>

\* a faulty variant: the children are visited from the last to the first
TravDescend_LastFirst ==
    /\ trav_frames # <<>>
    /\ LET top == trav_frames[Len(trav_frames)]
           children == get_children(NodeAt(trav_tree, top.path))
       IN  /\ top.next <= Len(children)
           /\ TravCall([trav_frames EXCEPT ![Len(trav_frames)].next = top.next + 1],
                       fileid_stack, top.path \o <<Len(children) + 1 - top.next>>)
    /\ UNCHANGED trav_tree
    /\ UNCHANGED <<passVars, migrateVars, spliceVars, dbVars, linkVars>>

\* one round of the loop over get_children (lines 115-117): run_analyzer_inner
\* is called on the next child
TravDescend ==
    /\ trav_frames # <<>>
    /\ LET top == trav_frames[Len(trav_frames)]
           children == get_children(NodeAt(trav_tree, top.path))
       IN  /\ top.next <= Len(children)
           /\ TravCall([trav_frames EXCEPT ![Len(trav_frames)].next = top.next + 1],
                       fileid_stack, top.path \o <<top.next>>)
    /\ UNCHANGED trav_tree
    /\ UNCHANGED <<passVars, migrateVars, spliceVars, dbVars, linkVars>>

\* a faulty variant: the fileid of a Root is not popped
TravReturn_NoPop ==
    /\ trav_frames # <<>>
    /\ LET top == trav_frames[Len(trav_frames)]
       IN  /\ top.next > Len(get_children(NodeAt(trav_tree, top.path)))
           /\ trav_log' = Append(trav_log, VisitorCall("exit_node", top.path, fileid_stack))
           /\ trav_frames' = SubSeq(trav_frames, 1, Len(trav_frames) - 1)
    /\ UNCHANGED <<trav_tree, fileid_stack>>
    /\ UNCHANGED <<passVars, migrateVars, spliceVars, dbVars, linkVars>>

\* the end of run_analyzer_inner (lines 119-123): after the last child exit_node
\* is called, then the fileid of a Root is popped, and the call returns
TravReturn ==
    /\ trav_frames # <<>>
    /\ LET top == trav_frames[Len(trav_frames)]
       IN  /\ top.next > Len(get_children(NodeAt(trav_tree, top.path)))
           /\ trav_log' = Append(trav_log, VisitorCall("exit_node", top.path, fileid_stack))
           /\ fileid_stack' = IF top.need_to_pop THEN FileIdStackPop(fileid_stack)
                                                ELSE fileid_stack
           /\ trav_frames' = SubSeq(trav_frames, 1, Len(trav_frames) - 1)
    /\ UNCHANGED trav_tree
    /\ UNCHANGED <<passVars, migrateVars, spliceVars, dbVars, linkVars>>

MaxTravChildren == 2    \* children of the node a traversal starts on (SpecTraverse)

TravLeaves == {TextNode, RefRole(None, <<TextNode>>)}

\* one node of every variant of the model, Roots nested up to two deep
TravNodes ==
    TravLeaves
        \cup {Section(<<TextNode, RefRole(None, <<>>)>>),
              Root(RelPath(<<"inc.rst">>), <<TextNode>>),
              Root(RelPath(<<"inc.rst">>),
                   <<Section(<<Root(RelPath(<<"deep.rst">>), <<TextNode>>)>>), TextNode>>),
              Directive(<<TextNode>>, <<TextNode>>),
              DefinitionListItem(<<TextNode>>, <<>>),
              InlineTarget(<<TextNode>>),
              Target(<<"s", "t", "d">>, <<"l">>, <<TargetIdentifier(<<<<"a">>>>)>>)}

\* the nodes a traversal is started on: a document root, or a Section
TravTrees ==
    {Root(RelPath(<<"index.txt">>), ch) : ch \in SeqsUpTo(TravNodes, MaxTravChildren)}
        \cup {Section(ch) : ch \in SeqsUpTo(TravNodes, MaxTravChildren)}

TravInit ==
    /\ trav_tree \in TravTrees
    /\ trav_frames = <<>>
    /\ fileid_stack = <<>>
    /\ trav_log = <<>>

\* the state of the traversal in the specifications that do not run it
TravIdle ==
    /\ trav_tree = TextNode
    /\ trav_frames = <<>>
    /\ fileid_stack = <<>>
    /\ trav_log = <<>>

----------------------------------------------------------------------------
(* bundle.rs: BundleElement and migrate *)

DocumentData(document) == [kind |-> "Document", document |-> document]
AssetData(bytes) == [kind |-> "Asset", bytes |-> bytes]
DiagnosticsData(diagnostics) == [kind |-> "Diagnostics", diagnostics |-> diagnostics]

\* src: where the element was read from (bundle, archive index); not a field of the code
BundleElement(name, data, src) == [name |-> name, data |-> data, src |-> src]

\* BundleElementData::get_path_component
get_path_component(data) ==
    CASE data.kind = "Document"    -> RelPath(<<"documents">>)
      [] data.kind = "Asset"       -> RelPath(<<"assets">>)
      [] data.kind = "Diagnostics" -> RelPath(<<"diagnostics">>)

\* a faulty variant: the category directory is left out
get_full_bundle_path_NoCategory(elem) == elem.name

\* BundleElement::get_full_bundle_path
get_full_bundle_path(elem) == Join(get_path_component(elem.data), elem.name)

\* SiteMetadata::get_namespace: format!("{}/{}", project, branch) as a path;
\* project and branch are given by their "/"-separated parts
get_namespace(metadata) ==
    [abs |-> metadata.project = <<>>, parts |-> metadata.project \o metadata.branch]

\* the closure migrate applies to every node the traversal enters
migrate_handler(ns, node) ==
    IF node.type = "ref_role"
    THEN IF node.fileid # None
         THEN [node EXCEPT !.fileid = Some(<<Join(ns, node.fileid[1][1]), node.fileid[1][2]>>)]
         ELSE node
    ELSE IF node.type = "root"
         THEN [node EXCEPT !.fileid = Join(ns, node.fileid)]
         ELSE node

RECURSIVE for_each_migrate(_, _)
\* Node::for_each with migrate_handler: enter_node on the node, then on the
\* children get_children exposes, in stored order
for_each_migrate(ns, node) ==
    LET entered == migrate_handler(ns, node)
        ch == get_children(entered)
    IN  IF ch = <<>> THEN entered
        ELSE [entered EXCEPT !.children = [i \in 1..Len(ch) |-> for_each_migrate(ns, ch[i])]]

\* BundleElement::migrate
migrate(elem, ns) ==
    LET named == [elem EXCEPT !.name = Join(ns, elem.name)]
    IN  IF elem.data.kind = "Document"
        THEN [named EXCEPT
                !.data.document.page_id = Join(ns, elem.data.document.page_id),
                !.data.document.ast = for_each_migrate(ns, elem.data.document.ast)]
        ELSE named

----------------------------------------------------------------------------
(* Migration of one element as a state machine *)

MaxMigrations  == 2     \* applications of migrate to one element (SpecMigrate)
MaxAstChildren == 1     \* children of the document root (SpecMigrate)

XY == RelPath(<<"x", "y">>)
Anchor == <<"s", "t", "d", "-", "l", "a", "b", "e", "l", "-", "a">>

MigrateLeaves == {TextNode, RefRole(None, <<>>), RefRole(Some(<<XY, Anchor>>), <<>>)}

\* one node of every variant around every leaf, in every node-valued field
MigrateNodes ==
    MigrateLeaves
        \cup {Section(<<l>>) : l \in MigrateLeaves}
        \cup {Root(RelPath(<<"inc.rst">>), <<l>>) : l \in MigrateLeaves}
        \cup {Directive(<<a>>, <<l>>) : a \in MigrateLeaves, l \in MigrateLeaves}
        \cup {DefinitionListItem(<<t>>, <<l>>) : t \in MigrateLeaves, l \in MigrateLeaves}
        \cup {InlineTarget(<<l>>) : l \in MigrateLeaves}
        \cup {RefRole(Some(<<AbsPath(<<"x">>), Anchor>>), <<l>>) : l \in MigrateLeaves}

MigrateDocuments ==
    {Document(pid, RelPath(<<"index.txt">>), Root(RelPath(<<"index.txt">>), ch)) :
        pid \in {RelPath(<<"a", "b", "index">>), AbsPath(<<"a">>)},
        ch \in SeqsUpTo(MigrateNodes, MaxAstChildren)}

MigrateElements ==
    {BundleElement(RelPath(<<"index.bson">>), DocumentData(d), <<1, 1>>) : d \in MigrateDocuments}
        \cup {BundleElement(RelPath(<<"h1">>), AssetData("bytes1"), <<1, 1>>),
              BundleElement(RelPath(<<"index.bson">>), DiagnosticsData(<<"warning">>), <<1, 1>>)}

MigrateNamespaces ==
    {get_namespace([project |-> <<"ns1">>, branch |-> <<"main">>]),
     get_namespace([project |-> <<"docs">>, branch |-> <<"v2", "x">>])}

MigrateInit ==
    /\ element \in MigrateElements
    /\ original = element
    /\ namespace \in MigrateNamespaces
    /\ applied = 0

\* the state of the migrate machine in the specifications that do not run it
MigrateIdle ==
    /\ element = BundleElement(RelPath(<<"h1">>), AssetData("bytes1"), <<1, 1>>)
    /\ original = element
    /\ namespace = RelPath(<<"ns1", "main">>)
    /\ applied = 0

\* element.migrate(&namespace)
Migrate ==
    /\ applied < MaxMigrations
    /\ element' = migrate(element, namespace)
    /\ applied' = applied + 1
    /\ UNCHANGED <<original, namespace>>
    /\ UNCHANGED <<passVars, spliceVars, dbVars, linkVars, travVars>>

----------------------------------------------------------------------------
(* bundle.rs: the archive of a bundle and its iteration *)

\* one zip entry: enclosed_name() (None for a prohibited path), is_file(), and
\* what its bytes hold
ZipEntry(enclosed_name, is_file, body) ==
    [enclosed_name |-> enclosed_name, is_file |-> is_file, body |-> body]

Ok(value) == [ok |-> TRUE, value |-> value]
Err == [ok |-> FALSE]

\* a faulty variant: iteration ends at the first entry that yields nothing
BundleNext_EndsAtSkipped(b, archive, idx) ==
    IF idx > Len(archive) THEN [index |-> idx, item |-> None]
    ELSE LET file == archive[idx]
             End == [index |-> Len(archive) + 1, item |-> None]
             Yield(item) == [index |-> idx + 1, item |-> Some(item)]
         IN  IF file.enclosed_name = None \/ ~file.is_file THEN End
             ELSE LET parts == file.enclosed_name[1].parts
                      name == RelPath(Tail(parts))
                  IN  IF Head(parts) = "assets"
                      THEN Yield(Ok(BundleElement(name, AssetData(file.body), <<b, idx>>)))
                      ELSE IF Head(parts) = "documents" /\ file.body.kind = "document"
                      THEN Yield(Ok(BundleElement(name, DocumentData(file.body.document),
                                                  <<b, idx>>)))
                      ELSE IF Head(parts) = "diagnostics" /\ file.body.kind = "diagnostics"
                      THEN Yield(Ok(BundleElement(name,
                                        DiagnosticsData(file.body.diagnostics), <<b, idx>>)))
                      ELSE IF Head(parts) \in {"documents", "diagnostics"} THEN Yield(Err)
                      ELSE End

RECURSIVE BundleNext(_, _, _)
\* BundleIntoIterator::next on bundle b at `idx`: the index afterwards and the
\* item, None at the end, else Some(Ok(element)) or Some(Err)
BundleNext(b, archive, idx) ==
    IF idx > Len(archive) THEN [index |-> idx, item |-> None]
    ELSE LET file == archive[idx]
             filename == file.enclosed_name[1]
             filename_prefix == Head(filename.parts)
             filename_without_prefix == RelPath(Tail(filename.parts))
             Yield(item) == [index |-> idx + 1, item |-> Some(item)]
         IN  IF file.enclosed_name = None THEN BundleNext(b, archive, idx + 1)
             ELSE IF ~file.is_file THEN BundleNext(b, archive, idx + 1)
             ELSE IF filename_prefix = "documents"
                  THEN IF file.body.kind = "document"
                       THEN Yield(Ok(BundleElement(filename_without_prefix,
                                                   DocumentData(file.body.document),
                                                   <<b, idx>>)))
                       ELSE Yield(Err)
             ELSE IF filename_prefix = "assets"
                  THEN Yield(Ok(BundleElement(filename_without_prefix,
                                               AssetData(file.body), <<b, idx>>)))
             ELSE IF filename_prefix = "diagnostics"
                  THEN IF file.body.kind = "diagnostics"
                       THEN Yield(Ok(BundleElement(filename_without_prefix,
                                                   DiagnosticsData(file.body.diagnostics),
                                                   <<b, idx>>)))
                       ELSE Yield(Err)
             ELSE BundleNext(b, archive, idx + 1)

----------------------------------------------------------------------------
(* bundle_set.rs: BundleSet::splice (main.rs: splice is the same algorithm) *)

Capacity == 10      \* crossbeam_channel::bounded(10)

Bundles == DOMAIN bundles

\* the packets of the channel: Some(element) and the sentinel None
IsSentinel(packet) == packet = None

\* rx is dropped when the writer thread has ended, tx when splice has ended
RxDropped == writer # "running"
TxDropped == main \in {"returned_ok", "returned_err", "panicked"}

\* the worker threads of the pool still alive: a panicking job ends its thread
LiveWorkers == n_cpus - Cardinality({b \in Bundles : task[b] = "panicked"})
Running == {b \in Bundles : task[b] = "running"}

SiteEntry == [path |-> RelPath(<<"site.bson">>), data |-> "site_metadata", src |-> <<0, 0>>]

\* a worker of the pool takes the next queued job (jobs are taken in the order
\* scope.execute queued them)
StartTask(b) ==
    /\ main = "scoped"
    /\ task[b] = "queued"
    /\ \A c \in Bundles : c < b => task[c] # "queued"
    /\ Cardinality(Running) < LiveWorkers
    /\ task' = [task EXCEPT ![b] = "running"]
    /\ UNCHANGED <<bundles, n_cpus, index, channel, writer, stored_assets,
                   out_bundle, sealed, skipped, main>>
    /\ UNCHANGED <<passVars, migrateVars, dbVars, linkVars, travVars>>

\* a faulty variant: the element is put at the front of the channel
ProducerSend_Prepend(b) ==
    /\ task[b] = "running"
    /\ LET r == BundleNext(b, bundles[b].archive, index[b])
       IN  /\ r.item # None
           /\ r.item[1].ok
           /\ ~RxDropped
           /\ Len(channel) < Capacity
           /\ index' = [index EXCEPT ![b] = r.index]
           /\ channel' = <<Some(migrate(r.item[1].value, get_namespace(bundles[b].metadata)))>>
                            \o channel
    /\ UNCHANGED <<bundles, n_cpus, task, writer, stored_assets, out_bundle, sealed,
                   skipped, main>>
    /\ UNCHANGED <<passVars, migrateVars, dbVars, linkVars, travVars>>

\* a faulty variant: the send does not wait for room in the channel
ProducerSend_Unbounded(b) ==
    /\ task[b] = "running"
    /\ LET r == BundleNext(b, bundles[b].archive, index[b])
       IN  /\ r.item # None
           /\ r.item[1].ok
           /\ ~RxDropped
           /\ index' = [index EXCEPT ![b] = r.index]
           /\ channel' = Append(channel,
                    Some(migrate(r.item[1].value, get_namespace(bundles[b].metadata))))
    /\ UNCHANGED <<bundles, n_cpus, task, writer, stored_assets, out_bundle, sealed,
                   skipped, main>>
    /\ UNCHANGED <<passVars, migrateVars, dbVars, linkVars, travVars>>

\* a faulty variant: the producer migrates the element twice before sending it
ProducerSend_MigrateTwice(b) ==
    /\ task[b] = "running"
    /\ LET r == BundleNext(b, bundles[b].archive, index[b])
           ns == get_namespace(bundles[b].metadata)
       IN  /\ r.item # None
           /\ r.item[1].ok
           /\ ~RxDropped
           /\ Len(channel) < Capacity
           /\ index' = [index EXCEPT ![b] = r.index]
           /\ channel' = Append(channel, Some(migrate(migrate(r.item[1].value, ns), ns)))
    /\ UNCHANGED <<bundles, n_cpus, task, writer, stored_assets, out_bundle, sealed,
                   skipped, main>>
    /\ UNCHANGED <<passVars, migrateVars, dbVars, linkVars, travVars>>

\* one round of the producer's loop: the next entry is read, migrated into the
\* bundle's namespace and sent; the send waits while the channel is full
ProducerSend(b) ==
    /\ task[b] = "running"
    /\ LET r == BundleNext(b, bundles[b].archive, index[b])
       IN  /\ r.item # None
           /\ r.item[1].ok
           /\ ~RxDropped
           /\ Len(channel) < Capacity
           /\ index' = [index EXCEPT ![b] = r.index]
           /\ channel' = Append(channel,
                    Some(migrate(r.item[1].value, get_namespace(bundles[b].metadata))))
    /\ UNCHANGED <<bundles, n_cpus, task, writer, stored_assets, out_bundle, sealed,
                   skipped, main>>
    /\ UNCHANGED <<passVars, migrateVars, dbVars, linkVars, travVars>>

\* entry.unwrap() on an item that failed to decode, or send(..).unwrap() after the
\* writer has gone: the job panics and its thread ends
ProducerPanic(b) ==
    /\ task[b] = "running"
    /\ LET r == BundleNext(b, bundles[b].archive, index[b])
       IN  /\ r.item # None
           /\ ~r.item[1].ok \/ RxDropped
           /\ index' = [index EXCEPT ![b] = r.index]
    /\ task' = [task EXCEPT ![b] = "panicked"]
    /\ UNCHANGED <<bundles, n_cpus, channel, writer, stored_assets, out_bundle, sealed,
                   skipped, main>>
    /\ UNCHANGED <<passVars, migrateVars, dbVars, linkVars, travVars>>

\* the iterator is exhausted: the job returns
ProducerDone(b) ==
    /\ task[b] = "running"
    /\ BundleNext(b, bundles[b].archive, index[b]).item = None
    /\ task' = [task EXCEPT ![b] = "done"]
    /\ UNCHANGED <<bundles, n_cpus, index, channel, writer, stored_assets, out_bundle,
                   sealed, skipped, main>>
    /\ UNCHANGED <<passVars, migrateVars, dbVars, linkVars, travVars>>

OutEntry(path, elem) == [path |-> path, data |-> elem.data, src |-> elem.src]

WriterRecvElement_NoDedup ==
    /\ writer = "running"
    /\ channel # <<>>
    /\ ~IsSentinel(Head(channel))
    /\ channel' = Tail(channel)
    /\ LET elem == Head(channel)[1]
       IN  /\ out_bundle' = Append(out_bundle, OutEntry(get_full_bundle_path(elem), elem))
           /\ UNCHANGED <<writer, stored_assets, skipped>>
    /\ UNCHANGED <<bundles, n_cpus, task, index, sealed, main>>
    /\ UNCHANGED <<passVars, migrateVars, dbVars, linkVars, travVars>>

\* the writer receives Some(element): an Asset is written at assets/<file name>
\* unless that name was stored before, anything else at its full bundle path
WriterRecvElement ==
    /\ writer = "running"
    /\ channel # <<>>
    /\ ~IsSentinel(Head(channel))
    /\ channel' = Tail(channel)
    /\ LET elem == Head(channel)[1]
           asset_hash == file_name(elem.name)
       IN  IF elem.data.kind = "Asset"
           THEN IF asset_hash = None
                THEN /\ writer' = "failed"
                     /\ UNCHANGED <<stored_assets, out_bundle, skipped>>
                ELSE IF asset_hash[1] \in stored_assets
                     THEN /\ skipped' = skipped \cup {elem.src}
                          /\ UNCHANGED <<writer, stored_assets, out_bundle>>
                     ELSE /\ stored_assets' = stored_assets \cup {asset_hash[1]}
                          /\ out_bundle' = Append(out_bundle,
                                OutEntry(RelPath(<<"assets", asset_hash[1]>>), elem))
                          /\ UNCHANGED <<writer, skipped>>
           ELSE /\ out_bundle' = Append(out_bundle, OutEntry(get_full_bundle_path(elem), elem))
                /\ UNCHANGED <<writer, stored_assets, skipped>>
    /\ UNCHANGED <<bundles, n_cpus, task, index, sealed, main>>
    /\ UNCHANGED <<passVars, migrateVars, dbVars, linkVars, travVars>>

\* start_file or write_all fails on the element received.  For an Asset that was
\* not stored before (its name is inserted by then) the writer thread ends with
\* the error (`?`); for anything else it ends with the error of write_all, or
\* panics where the result of start_file is unwrapped (line 75)
WriterWriteFails ==
    /\ writer = "running"
    /\ channel # <<>>
    /\ ~IsSentinel(Head(channel))
    /\ channel' = Tail(channel)
    /\ LET elem == Head(channel)[1]
           asset_hash == file_name(elem.name)
       IN  IF elem.data.kind = "Asset"
           THEN /\ asset_hash # None
                /\ asset_hash[1] \notin stored_assets
                /\ stored_assets' = stored_assets \cup {asset_hash[1]}
                /\ writer' = "failed"
           ELSE /\ writer' \in {"failed", "panicked"}
                /\ UNCHANGED stored_assets
    /\ UNCHANGED <<bundles, n_cpus, task, index, out_bundle, sealed, skipped, main>>
    /\ UNCHANGED <<passVars, migrateVars, dbVars, linkVars, travVars>>

\* the writer receives None: it finishes the archive and returns Ok
WriterRecvNone ==
    /\ writer = "running"
    /\ channel # <<>>
    /\ IsSentinel(Head(channel))
    /\ channel' = Tail(channel)
    /\ sealed' = TRUE
    /\ writer' = "finished"
    /\ UNCHANGED <<bundles, n_cpus, task, index, stored_assets, out_bundle, skipped, main>>
    /\ UNCHANGED <<passVars, migrateVars, dbVars, linkVars, travVars>>

\* rx.recv().unwrap() on an empty channel whose sender is gone
WriterDisconnected ==
    /\ writer = "running"
    /\ channel = <<>>
    /\ TxDropped
    /\ writer' = "panicked"
    /\ UNCHANGED <<bundles, n_cpus, task, index, channel, stored_assets, out_bundle,
                   sealed, skipped, main>>
    /\ UNCHANGED <<passVars, migrateVars, dbVars, linkVars, travVars>>

\* a faulty variant: the panic of a job is not propagated
ScopeEnd_IgnoresPanics ==
    /\ main = "scoped"
    /\ \/ \A b \in Bundles : task[b] \in {"done", "panicked"}
       \/ LiveWorkers = 0
    /\ main' = "send_none"
    /\ UNCHANGED <<bundles, n_cpus, task, index, channel, writer, stored_assets,
                   out_bundle, sealed, skipped>>
    /\ UNCHANGED <<passVars, migrateVars, dbVars, linkVars, travVars>>

\* a faulty variant: main does not wait for the jobs
ScopeEnd_Early ==
    /\ main = "scoped"
    /\ main' = IF \E b \in Bundles : task[b] = "panicked" THEN "panicked" ELSE "send_none"
    /\ UNCHANGED <<bundles, n_cpus, task, index, channel, writer, stored_assets,
                   out_bundle, sealed, skipped>>
    /\ UNCHANGED <<passVars, migrateVars, dbVars, linkVars, travVars>>

\* pool.scoped returns when every job has ended; it panics if a worker panicked
\* (also when no worker is left for the jobs still queued)
ScopeEnd ==
    /\ main = "scoped"
    /\ \/ \A b \in Bundles : task[b] \in {"done", "panicked"}
       \/ LiveWorkers = 0
    /\ main' = IF \E b \in Bundles : task[b] = "panicked" THEN "panicked" ELSE "send_none"
    /\ UNCHANGED <<bundles, n_cpus, task, index, channel, writer, stored_assets,
                   out_bundle, sealed, skipped>>
    /\ UNCHANGED <<passVars, migrateVars, dbVars, linkVars, travVars>>

\* a faulty variant: main goes on to join the writer without sending the sentinel
SendNone_Forgotten ==
    /\ main = "send_none"
    /\ main' = IF RxDropped THEN "returned_err" ELSE "join"
    /\ UNCHANGED <<bundles, n_cpus, task, index, channel, writer, stored_assets, out_bundle,
                   sealed, skipped>>
    /\ UNCHANGED <<passVars, migrateVars, dbVars, linkVars, travVars>>

\* tx.send(None)?: the sentinel, or Err when the writer has gone
SendNone ==
    /\ main = "send_none"
    /\ IF RxDropped
       THEN /\ main' = "returned_err"
            /\ UNCHANGED channel
       ELSE /\ Len(channel) < Capacity
            /\ channel' = Append(channel, None)
            /\ main' = "join"
    /\ UNCHANGED <<bundles, n_cpus, task, index, writer, stored_assets, out_bundle,
                   sealed, skipped>>
    /\ UNCHANGED <<passVars, migrateVars, dbVars, linkVars, travVars>>

\* thread.join().unwrap()?
JoinWriter ==
    /\ main = "join"
    /\ writer # "running"
    /\ main' = CASE writer = "finished" -> "returned_ok"
                 [] writer = "failed"   -> "returned_err"
                 [] writer = "panicked" -> "panicked"
    /\ UNCHANGED <<bundles, n_cpus, task, index, channel, writer, stored_assets,
                   out_bundle, sealed, skipped>>
    /\ UNCHANGED <<passVars, migrateVars, dbVars, linkVars, travVars>>

NumBundles == 2     \* input bundles of one splice
MaxCpus    == 2     \* threads of the pool

SpliceDocument ==
    Document(RelPath(<<"index">>), RelPath(<<"index.txt">>),
             Root(RelPath(<<"index.txt">>), <<RefRole(Some(<<XY, Anchor>>), <<>>)>>))

File(parts, body) == ZipEntry(Some(RelPath(parts)), TRUE, body)
Raw(bytes) == [kind |-> "raw", bytes |-> bytes]
DocBody == [kind |-> "document", document |-> SpliceDocument]
DiagBody == [kind |-> "diagnostics", diagnostics |-> <<"warning">>]
Metadata(project, branch) == [project |-> <<project>>, branch |-> <<branch>>]

\* the input bundles a splice is run on: two well-formed ones that share the
\* asset h1, one with a document that fails to decode, one with an asset whose
\* path has no file name, one whose project name is empty
SpliceBundles ==
    { [metadata |-> Metadata("ns1", "main"),
       archive |-> << File(<<"site.bson">>, Raw("site")),
                      File(<<"documents", "index.bson">>, DocBody),
                      File(<<"assets", "h1">>, Raw("png1")) >>],
      [metadata |-> Metadata("ns2", "main"),
       archive |-> << File(<<"assets", "img", "h1">>, Raw("png1")),
                      ZipEntry(None, TRUE, Raw("evil")),
                      File(<<"readme">>, Raw("text")),
                      File(<<"diagnostics", "index.bson">>, DiagBody) >>],
      [metadata |-> Metadata("ns1", "main"),
       archive |-> << ZipEntry(Some(RelPath(<<"documents", "ref">>)), FALSE, Raw("")),
                      File(<<"documents", "bad.bson">>, Raw("junk")) >>],
      [metadata |-> Metadata("ns3", "v1"),
       archive |-> << File(<<"assets", "img", "..">>, Raw("png3")) >>],
      [metadata |-> [project |-> <<>>, branch |-> <<"main">>],
       archive |-> << File(<<"diagnostics", "index.bson">>, DiagBody) >>] }

SpliceInit ==
    /\ bundles \in [1..NumBundles -> SpliceBundles]
    /\ n_cpus \in 1..MaxCpus
    /\ task = [b \in 1..NumBundles |-> "queued"]
    /\ index = [b \in 1..NumBundles |-> 1]
    /\ channel = <<>>
    /\ writer = "running"
    /\ stored_assets = {}
    /\ out_bundle = <<SiteEntry>>
    /\ sealed = FALSE
    /\ skipped = {}
    /\ main = "scoped"

\* a bundle with one asset more than the channel holds, each with its own hash
HashNames == <<"h01", "h02", "h03", "h04", "h05", "h06", "h07", "h08", "h09", "h10", "h11">>
LargeBundle ==
    [metadata |-> Metadata("ns1", "main"),
     archive |-> [i \in 1..(Capacity + 1) |-> File(<<"assets", HashNames[i]>>, Raw("png"))]]

SmallBundles ==
    { [metadata |-> Metadata("ns2", "main"),
       archive |-> << File(<<"site.bson">>, Raw("site")),
                      File(<<"diagnostics", "index.bson">>, DiagBody) >>],
      [metadata |-> Metadata("ns3", "main"),
       archive |-> << File(<<"documents", "bad.bson">>, Raw("junk")) >>] }

\* a splice of the large bundle together with small ones
SpliceInitLarge ==
    /\ bundles \in {bs \in [1..NumBundles -> {LargeBundle} \cup SmallBundles] :
                        /\ bs[1] = LargeBundle
                        /\ \A b \in 2..NumBundles : bs[b] \in SmallBundles}
    /\ n_cpus \in 1..MaxCpus
    /\ task = [b \in 1..NumBundles |-> "queued"]
    /\ index = [b \in 1..NumBundles |-> 1]
    /\ channel = <<>>
    /\ writer = "running"
    /\ stored_assets = {}
    /\ out_bundle = <<SiteEntry>>
    /\ sealed = FALSE
    /\ skipped = {}
    /\ main = "scoped"

\* bundles of three sites whose (project, branch) pairs differ: the project or
\* the branch of the first two holds a "/"
SiblingBundles ==
    { [metadata |-> [project |-> <<"a", "b">>, branch |-> <<"c">>],
       archive |-> << File(<<"documents", "index.bson">>, DocBody) >>],
      [metadata |-> [project |-> <<"a">>, branch |-> <<"b", "c">>],
       archive |-> << File(<<"documents", "index.bson">>, DocBody),
                      File(<<"diagnostics", "index.bson">>, DiagBody) >>],
      [metadata |-> [project |-> <<"a">>, branch |-> <<"c">>],
       archive |-> << File(<<"diagnostics", "index.bson">>, DiagBody),
                      File(<<"documents", "bad.bson">>, Raw("junk")) >>] }

\* a splice of bundles with pairwise different metadata
SpliceInitSiblings ==
    /\ bundles \in {bs \in [1..NumBundles -> SiblingBundles] :
                        \A b, c \in 1..NumBundles : b # c => bs[b].metadata # bs[c].metadata}
    /\ n_cpus \in 1..MaxCpus
    /\ task = [b \in 1..NumBundles |-> "queued"]
    /\ index = [b \in 1..NumBundles |-> 1]
    /\ channel = <<>>
    /\ writer = "running"
    /\ stored_assets = {}
    /\ out_bundle = <<SiteEntry>>
    /\ sealed = FALSE
    /\ skipped = {}
    /\ main = "scoped"

\* the state of the splice machine in the specifications that do not run it
SpliceIdle ==
    /\ bundles = <<>>
    /\ n_cpus = 1
    /\ task = <<>>
    /\ index = <<>>
    /\ channel = <<>>
    /\ writer = "running"
    /\ stored_assets = {}
    /\ out_bundle = <<SiteEntry>>
    /\ sealed = FALSE
    /\ skipped = {}
    /\ main = "scoped"

----------------------------------------------------------------------------
(* bundle_set.rs: BundleSet::link.  One job per bundle; each job owns a       *)
(* TargetPass1 (its own page and target_counter); all jobs share one database *)
(* behind a Mutex.                                                            *)

LinkJobs == DOMAIN link_bundles

RECURSIVE Preorder(_)
\* Node::run_analyzer_inner: the nodes in the order enter_node is called on them
Preorder(node) ==
    LET ch == get_children(node)
    IN  <<node>> \o Concat([i \in 1..Len(ch) |-> Preorder(ch[i])])

LinkLiveWorkers == link_cpus - Cardinality({b \in LinkJobs : link_task[b] = "panicked"})
LinkRunning == {b \in LinkJobs : link_task[b] = "running"}

NoPending == [identifiers |-> <<>>, html_id |-> <<>>, target |-> TextNode]

\* where a job goes on after a node: the next node, or the next entry after exit_page
AfterNode(rest) == IF rest = <<>> THEN "iterate" ELSE "enter"

\* a worker of the pool takes the next queued job; the job builds its TargetPass1
LinkStart(b) ==
    /\ link_main = "scoped"
    /\ link_task[b] = "queued"
    /\ \A c \in LinkJobs : c < b => link_task[c] # "queued"
    /\ Cardinality(LinkRunning) < LinkLiveWorkers
    /\ link_task' = [link_task EXCEPT ![b] = "running"]
    /\ UNCHANGED <<link_bundles, link_cpus, link_index, link_page, link_counter, link_nodes,
                   link_pc, link_pending, db_lock, link_visited, db_log, link_main>>
    /\ UNCHANGED <<passVars, migrateVars, spliceVars, dbVars, travVars>>

\* the next entry of the bundle: a Document is entered (enter_page), anything
\* else is dropped
LinkNextEntry(b) ==
    /\ link_task[b] = "running"
    /\ link_pc[b] = "iterate"
    /\ LET r == BundleNext(b, link_bundles[b].archive, link_index[b])
       IN  /\ r.item # None
           /\ r.item[1].ok
           /\ link_index' = [link_index EXCEPT ![b] = r.index]
           /\ IF r.item[1].value.data.kind = "Document"
              THEN LET doc == r.item[1].value.data.document
                   IN  /\ link_page' = [link_page EXCEPT ![b] = Some(doc.filename)]
                       /\ link_nodes' = [link_nodes EXCEPT ![b] = Preorder(doc.ast)]
                       /\ link_pc' = [link_pc EXCEPT ![b] = "enter"]
              ELSE UNCHANGED <<link_page, link_nodes, link_pc>>
    /\ UNCHANGED <<link_bundles, link_cpus, link_task, link_counter, link_pending, db_lock,
                   link_visited, db_log, link_main>>
    /\ UNCHANGED <<passVars, migrateVars, spliceVars, dbVars, travVars>>

\* entry.unwrap() on an item that failed to decode
LinkEntryPanic(b) ==
    /\ link_task[b] = "running"
    /\ link_pc[b] = "iterate"
    /\ LET r == BundleNext(b, link_bundles[b].archive, link_index[b])
       IN  /\ r.item # None
           /\ ~r.item[1].ok
           /\ link_index' = [link_index EXCEPT ![b] = r.index]
    /\ link_task' = [link_task EXCEPT ![b] = "panicked"]
    /\ UNCHANGED <<link_bundles, link_cpus, link_page, link_counter, link_nodes, link_pc,
                   link_pending, db_lock, link_visited, db_log, link_main>>
    /\ UNCHANGED <<passVars, migrateVars, spliceVars, dbVars, travVars>>

\* the iterator is exhausted: the job returns
LinkJobDone(b) ==
    /\ link_task[b] = "running"
    /\ link_pc[b] = "iterate"
    /\ BundleNext(b, link_bundles[b].archive, link_index[b]).item = None
    /\ link_task' = [link_task EXCEPT ![b] = "done"]
    /\ UNCHANGED <<link_bundles, link_cpus, link_index, link_page, link_counter, link_nodes,
                   link_pc, link_pending, db_lock, link_visited, db_log, link_main>>
    /\ UNCHANGED <<passVars, migrateVars, spliceVars, dbVars, travVars>>

\* a faulty variant: the html id is stored in the Target of the bundle's archive
\* too, not only in the deserialized copy
LinkEnterNode_InPlace(b) ==
    /\ link_task[b] = "running"
    /\ link_pc[b] = "enter"
    /\ LET node == Head(link_nodes[b])
           rest == Tail(link_nodes[b])
       IN  IF node.type # "target"
           THEN /\ link_nodes' = [link_nodes EXCEPT ![b] = rest]
                /\ link_pc' = [link_pc EXCEPT ![b] = AfterNode(rest)]
                /\ UNCHANGED <<link_bundles, link_counter, link_pending, link_visited>>
           ELSE IF ChosenId(node) = None
           THEN /\ link_nodes' = [link_nodes EXCEPT ![b] = rest]
                /\ link_pc' = [link_pc EXCEPT ![b] = AfterNode(rest)]
                /\ link_visited' = [link_visited EXCEPT ![b] = Append(@, node)]
                /\ UNCHANGED <<link_bundles, link_counter, link_pending>>
           ELSE LET d == Disambiguate(link_counter[b],
                                      CandidateHtmlId(node, ChosenId(node)[1]))
                    entered == [node EXCEPT !.html_id = Some(d.html_id)]
                IN  /\ link_counter' = [link_counter EXCEPT ![b] = d.counter]
                    /\ link_visited' = [link_visited EXCEPT ![b] = Append(@, entered)]
                    /\ link_bundles' = [link_bundles EXCEPT
                            ![b].archive[link_index[b] - 1].body.document.ast.children =
                                [i \in DOMAIN @ |-> IF @[i] = node THEN entered ELSE @[i]]]
                    /\ link_pending' = [link_pending EXCEPT ![b] =
                            [identifiers |-> Identifiers(node), html_id |-> d.html_id,
                             target |-> node]]
                    /\ link_pc' = [link_pc EXCEPT ![b] = "lock"]
                    /\ UNCHANGED link_nodes
    /\ UNCHANGED <<link_cpus, link_task, link_index, link_page, db_lock, db_log, link_main>>
    /\ UNCHANGED <<passVars, migrateVars, spliceVars, dbVars, travVars>>

\* a faulty variant: all jobs share the counters of the first TargetPass1
LinkEnterNode_SharedCounter(b) ==
    /\ link_task[b] = "running"
    /\ link_pc[b] = "enter"
    /\ LET node == Head(link_nodes[b])
           rest == Tail(link_nodes[b])
       IN  IF node.type # "target"
           THEN /\ link_nodes' = [link_nodes EXCEPT ![b] = rest]
                /\ link_pc' = [link_pc EXCEPT ![b] = AfterNode(rest)]
                /\ UNCHANGED <<link_counter, link_pending, link_visited>>
           ELSE IF ChosenId(node) = None
           THEN /\ link_nodes' = [link_nodes EXCEPT ![b] = rest]
                /\ link_pc' = [link_pc EXCEPT ![b] = AfterNode(rest)]
                /\ link_visited' = [link_visited EXCEPT ![b] = Append(@, node)]
                /\ UNCHANGED <<link_counter, link_pending>>
           ELSE LET d == Disambiguate(link_counter[1],
                                      CandidateHtmlId(node, ChosenId(node)[1]))
                IN  /\ link_counter' = [link_counter EXCEPT ![1] = d.counter]
                    /\ link_visited' = [link_visited EXCEPT ![b] =
                            Append(@, [node EXCEPT !.html_id = Some(d.html_id)])]
                    /\ link_pending' = [link_pending EXCEPT ![b] =
                            [identifiers |-> Identifiers(node), html_id |-> d.html_id,
                             target |-> node]]
                    /\ link_pc' = [link_pc EXCEPT ![b] = "lock"]
                    /\ UNCHANGED link_nodes
    /\ UNCHANGED <<link_bundles, link_cpus, link_task, link_index, link_page, db_lock,
                   db_log, link_main>>
    /\ UNCHANGED <<passVars, migrateVars, spliceVars, dbVars, travVars>>

\* enter_node up to the lock (analyzer.rs:71-116): nothing for a node that is no
\* Target or has no identifier, else the html id is chosen, disambiguated with
\* the job's own counters and stored in the node
LinkEnterNode(b) ==
    /\ link_task[b] = "running"
    /\ link_pc[b] = "enter"
    /\ LET node == Head(link_nodes[b])
           rest == Tail(link_nodes[b])
       IN  IF node.type # "target"
           THEN /\ link_nodes' = [link_nodes EXCEPT ![b] = rest]
                /\ link_pc' = [link_pc EXCEPT ![b] = AfterNode(rest)]
                /\ UNCHANGED <<link_counter, link_pending, link_visited>>
           ELSE IF ChosenId(node) = None
           THEN /\ link_nodes' = [link_nodes EXCEPT ![b] = rest]
                /\ link_pc' = [link_pc EXCEPT ![b] = AfterNode(rest)]
                /\ link_visited' = [link_visited EXCEPT ![b] = Append(@, node)]
                /\ UNCHANGED <<link_counter, link_pending>>
           ELSE LET d == Disambiguate(link_counter[b],
                                      CandidateHtmlId(node, ChosenId(node)[1]))
                IN  /\ link_counter' = [link_counter EXCEPT ![b] = d.counter]
                    /\ link_visited' = [link_visited EXCEPT ![b] =
                            Append(@, [node EXCEPT !.html_id = Some(d.html_id)])]
                    /\ link_pending' = [link_pending EXCEPT ![b] =
                            [identifiers |-> Identifiers(node), html_id |-> d.html_id,
                             target |-> node]]
                    /\ link_pc' = [link_pc EXCEPT ![b] = "lock"]
                    /\ UNCHANGED link_nodes
    /\ UNCHANGED <<link_bundles, link_cpus, link_task, link_index, link_page, db_lock,
                   db_log, link_main>>
    /\ UNCHANGED <<passVars, migrateVars, spliceVars, dbVars, travVars>>

\* a faulty variant: the registrations are made without holding the lock
LinkLock_NotTaken(b) ==
    /\ link_task[b] = "running"
    /\ link_pc[b] = "lock"
    /\ link_pc' = [link_pc EXCEPT ![b] = "define"]
    /\ UNCHANGED <<link_bundles, link_cpus, link_task, link_index, link_page, link_counter,
                   link_nodes, link_pending, db_lock, link_visited, db_log, link_main>>
    /\ UNCHANGED <<passVars, migrateVars, spliceVars, dbVars, travVars>>

\* self.db.lock().unwrap(): waits until the Mutex is free
LinkLock(b) ==
    /\ link_task[b] = "running"
    /\ link_pc[b] = "lock"
    /\ db_lock = 0
    /\ db_lock' = b
    /\ link_pc' = [link_pc EXCEPT ![b] = "define"]
    /\ UNCHANGED <<link_bundles, link_cpus, link_task, link_index, link_page, link_counter,
                   link_nodes, link_pending, link_visited, db_log, link_main>>
    /\ UNCHANGED <<passVars, migrateVars, spliceVars, dbVars, travVars>>

\* self.db.lock().unwrap() on a Mutex poisoned by a job that panicked holding it
LinkLockPoisoned(b) ==
    /\ link_task[b] = "running"
    /\ link_pc[b] = "lock"
    /\ db_lock = -1
    /\ link_task' = [link_task EXCEPT ![b] = "panicked"]
    /\ UNCHANGED <<link_bundles, link_cpus, link_index, link_page, link_counter, link_nodes,
                   link_pc, link_pending, db_lock, link_visited, db_log, link_main>>
    /\ UNCHANGED <<passVars, migrateVars, spliceVars, dbVars, travVars>>

\* one round of the loop under the lock: define_local_target for the next
\* TargetIdentifier; its unwrap panics on an empty ids list, which poisons the Mutex
LinkDefine(b) ==
    /\ link_task[b] = "running"
    /\ link_pc[b] = "define"
    /\ link_pending[b].identifiers # <<>>
    /\ LET pending == link_pending[b]
           target_identifier == Head(pending.identifiers)
           r == define_local_target(local_definitions, pending.target.domain,
                                    pending.target.name, target_identifier.ids,
                                    link_page[b][1], target_identifier.children,
                                    pending.html_id)
       IN  IF r.panicked
           THEN /\ link_task' = [link_task EXCEPT ![b] = "panicked"]
                /\ db_lock' = -1
                /\ UNCHANGED <<local_definitions, link_pending, db_log>>
           ELSE /\ local_definitions' = r.defs
                /\ link_pending' = [link_pending EXCEPT ![b].identifiers = Tail(@)]
                /\ db_log' = Append(db_log, <<b, Len(link_visited[b])>>)
                /\ UNCHANGED <<link_task, db_lock>>
    /\ UNCHANGED <<link_bundles, link_cpus, link_index, link_page, link_counter, link_nodes,
                   link_pc, link_visited, link_main>>
    /\ UNCHANGED <<page, target_counter, visited, pass_panicked>>
    /\ UNCHANGED <<migrateVars, spliceVars, dbVars, travVars>>

\* the end of enter_node: the guard is dropped, the traversal goes on
LinkUnlock(b) ==
    /\ link_task[b] = "running"
    /\ link_pc[b] = "define"
    /\ link_pending[b].identifiers = <<>>
    /\ db_lock' = 0
    /\ link_pending' = [link_pending EXCEPT ![b] = NoPending]
    /\ link_nodes' = [link_nodes EXCEPT ![b] = Tail(@)]
    /\ link_pc' = [link_pc EXCEPT ![b] = AfterNode(Tail(link_nodes[b]))]
    /\ UNCHANGED <<link_bundles, link_cpus, link_task, link_index, link_page, link_counter,
                   link_visited, db_log, link_main>>
    /\ UNCHANGED <<passVars, migrateVars, spliceVars, dbVars, travVars>>

\* pool.scoped returns when every job has ended; it panics if a worker panicked
LinkScopeEnd ==
    /\ link_main = "scoped"
    /\ \/ \A b \in LinkJobs : link_task[b] \in {"done", "panicked"}
       \/ LinkLiveWorkers = 0
    /\ link_main' = IF \E b \in LinkJobs : link_task[b] = "panicked"
                    THEN "panicked" ELSE "returned_ok"
    /\ UNCHANGED <<link_bundles, link_cpus, link_task, link_index, link_page, link_counter,
                   link_nodes, link_pc, link_pending, db_lock, link_visited, db_log>>
    /\ UNCHANGED <<passVars, migrateVars, spliceVars, dbVars, travVars>>

NumLinkBundles == 2     \* input bundles of one link

IdA == <<"a">>
IdB == <<"b">>

LinkDocument(targets) ==
    Document(RelPath(<<"index">>), FileId(<<"index.txt">>),
             Root(FileId(<<"index.txt">>), targets))

\* the input bundles link is run on: a Target with two TargetIdentifiers, a
\* Target followed by one without identifiers, a Target with a TargetIdentifier
\* whose ids are empty, and a document that fails to decode
LinkBundles ==
    { [metadata |-> Metadata("ns1", "main"),
       archive |-> << File(<<"site.bson">>, Raw("site")),
                      File(<<"documents", "index.bson">>,
                           [kind |-> "document", document |->
                              LinkDocument(<<Target(Std, Label,
                                  <<TargetIdentifier(<<IdA>>), TargetIdentifier(<<IdB>>)>>)>>)]),
                      File(<<"assets", "h1">>, Raw("png1")) >>],
      [metadata |-> Metadata("ns2", "main"),
       archive |-> << File(<<"documents", "index.bson">>,
                           [kind |-> "document", document |->
                              LinkDocument(<<Target(Std, Label, <<TargetIdentifier(<<IdA>>)>>),
                                             Target(Std, Label, <<TextNode>>)>>)]) >>],
      [metadata |-> Metadata("ns3", "main"),
       archive |-> << File(<<"documents", "index.bson">>,
                           [kind |-> "document", document |->
                              LinkDocument(<<Target(Std, Label,
                                  <<TargetIdentifier(<<IdB>>), TargetIdentifier(<<>>)>>)>>)]) >>],
      [metadata |-> Metadata("ns4", "main"),
       archive |-> << File(<<"documents", "bad.bson">>, Raw("junk")) >>] }

LinkInit ==
    /\ link_bundles \in [1..NumLinkBundles -> LinkBundles]
    /\ link_cpus \in 1..MaxCpus
    /\ link_task = [b \in 1..NumLinkBundles |-> "queued"]
    /\ link_index = [b \in 1..NumLinkBundles |-> 1]
    /\ link_page = [b \in 1..NumLinkBundles |-> None]
    /\ link_counter = [b \in 1..NumLinkBundles |-> <<>>]
    /\ link_nodes = [b \in 1..NumLinkBundles |-> <<>>]
    /\ link_pc = [b \in 1..NumLinkBundles |-> "iterate"]
    /\ link_pending = [b \in 1..NumLinkBundles |-> NoPending]
    /\ db_lock = 0
    /\ link_visited = [b \in 1..NumLinkBundles |-> <<>>]
    /\ db_log = <<>>
    /\ link_main = "scoped"

\* the state of the link machine in the specifications that do not run it
LinkIdle ==
    /\ link_bundles = <<>>
    /\ link_cpus = 1
    /\ link_task = <<>>
    /\ link_index = <<>>
    /\ link_page = <<>>
    /\ link_counter = <<>>
    /\ link_nodes = <<>>
    /\ link_pc = <<>>
    /\ link_pending = <<>>
    /\ db_lock = 0
    /\ link_visited = <<>>
    /\ db_log = <<>>
    /\ link_main = "scoped"


----------------------------------------------------------------------------
(* nodes.rs: FileId as a string; target_database.rs: get.  In this part the   *)
(* components of a FileId are sequences of characters.                        *)

RECURSIVE JoinSlash(_)
\* parts.join("/")
JoinSlash(parts) ==
    IF parts = <<>> THEN <<>>
    ELSE IF Len(parts) = 1 THEN parts[1]
    ELSE parts[1] \o <<"/">> \o JoinSlash(Tail(parts))

\* a faulty variant: the root directory is left out
as_posix_SkipsRoot(fileid) == JoinSlash(fileid.parts)

\* FileId::as_posix: the root directory is the empty string before the first "/"
as_posix(fileid) == JoinSlash((IF fileid.abs THEN << <<>> >> ELSE <<>>) \o fileid.parts)

\* the suffixes PAT_FILE_EXTENSIONS matches at the end of a file name
KnownSuffixes ==
    { <<".", "t", "x", "t">>, <<".", "r", "s", "t">>,
      <<".", "y", "a", "m", "l">>, <<".", "a", "s", "t">> }

EndsWith(str, suffix) ==
    /\ Len(str) >= Len(suffix)
    /\ SubSeq(str, Len(str) - Len(suffix) + 1, Len(str)) = suffix

\* PAT_FILE_EXTENSIONS.replace_all(file_name, "")
StripKnownSuffix(name) ==
    IF \E x \in KnownSuffixes : EndsWith(name, x)
    THEN LET x == CHOOSE y \in KnownSuffixes : EndsWith(name, y)
         IN  SubSeq(name, 1, Len(name) - Len(x))
    ELSE name

\* FileId::without_known_suffix: None stands for the panic of expect() on a path
\* without file name; an emptied file name leaves the parent directory
without_known_suffix(fileid) ==
    IF fileid.parts = <<>> \/ fileid.parts[Len(fileid.parts)] = <<".", ".">>
    THEN None
    ELSE LET new_filename == StripKnownSuffix(fileid.parts[Len(fileid.parts)])
             front == SubSeq(fileid.parts, 1, Len(fileid.parts) - 1)
         IN  Some(as_posix([fileid EXCEPT !.parts =
                    front \o (IF new_filename = <<>> THEN <<>> ELSE <<new_filename>>)]))

InternalResult(def) ==
    [result |-> <<without_known_suffix(def.fileid)[1], def.html5_id>>,
     canonical_name |-> def.canonical_name, title |-> def.title]

\* TargetDatabase::get: the whole key is normalized, then looked up
get(defs, key) ==
    LET normalized == normalize_target(key)
    IN  IF normalized \notin DOMAIN defs THEN [panicked |-> FALSE, results |-> <<>>]
        ELSE LET matches == defs[normalized]
             IN  IF \E i \in 1..Len(matches) : without_known_suffix(matches[i].fileid) = None
                 THEN [panicked |-> TRUE, results |-> <<>>]
                 ELSE [panicked |-> FALSE,
                       results |-> [i \in 1..Len(matches) |-> InternalResult(matches[i])]]

----------------------------------------------------------------------------
(* The target database as a state machine: definitions and lookups *)

MaxDefinitions == 3     \* definitions stored before the last call (SpecDb)

RECURSIVE SumLen(_, _)
SumLen(f, keys) ==
    IF keys = {} THEN 0
    ELSE LET k == CHOOSE x \in keys : TRUE IN Len(f[k]) + SumLen(f, keys \ {k})

TotalDefinitions(defs) == SumLen(defs, DOMAIN defs)

NoCall ==
    [op |-> "none", panicked |-> FALSE, before |-> <<>>, domain |-> <<>>, name |-> <<>>,
     targets |-> <<>>, pageid |-> FileId(<<>>), html5_id |-> <<>>, key |-> <<>>,
     results |-> <<>>]

\* db.define_local_target(domain, name, targets, pageid, [], html5_id)
DbDefine(domain, name, targets, pageid, html5_id) ==
    /\ ~last_call.panicked
    /\ TotalDefinitions(local_definitions) < MaxDefinitions
    /\ LET r == define_local_target(local_definitions, domain, name, targets, pageid,
                                    <<>>, html5_id)
       IN  /\ local_definitions' = r.defs
           /\ last_call' = [NoCall EXCEPT !.op = "define", !.panicked = r.panicked,
                                          !.before = local_definitions, !.domain = domain,
                                          !.name = name, !.targets = targets,
                                          !.pageid = pageid, !.html5_id = html5_id]
    /\ UNCHANGED <<page, target_counter, visited, pass_panicked>>
    /\ UNCHANGED <<migrateVars, spliceVars, linkVars, travVars>>

\* db.get(key)
DbGet(key) ==
    /\ ~last_call.panicked
    /\ LET r == get(local_definitions, key)
       IN  last_call' = [NoCall EXCEPT !.op = "get", !.panicked = r.panicked,
                                       !.before = local_definitions, !.key = key,
                                       !.results = r.results]
    /\ UNCHANGED passVars
    /\ UNCHANGED <<migrateVars, spliceVars, linkVars, travVars>>

NameL  == <<"l">>
NameWs == <<"l", " ", " ", "l">>
IdAB   == <<"a", " ", "b">>
IdATB  == <<"a", "\t", " ", "b">>
IdANB  == <<"a", "\n", "b">>
IdC    == <<"c">>

DbNames == {NameL, NameWs}
DbTargetLists == {<<>>, <<IdAB>>, <<IdAB, IdATB>>, <<IdAB, IdAB>>, <<IdC, IdAB>>}

\* impl From<PathBuf> for FileId: every path is taken as it is
FileIdFrom(path) == [abs |-> path.abs, parts |-> path.parts]

\* the pages of tests::test_without_known_suffix and the rooted one of
\* tests::test_as_posix, with the html ids defined in them
DbPages ==
    { [pageid |-> FileIdFrom(RelPath(<< <<"f", "o", "o">>,
                                        <<"b", "a", "r", ".", "t", "x", "t">> >>)),
       html5_id |-> <<"h", "1">>],
      [pageid |-> FileIdFrom(RelPath(<< <<"b", "a", "r", ".", "p", "n", "g">> >>)),
       html5_id |-> <<"h", "2">>],
      [pageid |-> FileIdFrom(AbsPath(<< <<"f", "o", "o">>, <<"b", "a", "r">> >>)),
       html5_id |-> <<"h", "3">>] }

\* the keys looked up: {domain}:{name}:{id} as written
RawKey(domain, name, id) == domain \o <<":">> \o name \o <<":">> \o id
DbKeys == {RawKey(Std, n, id) : n \in DbNames, id \in {IdAB, IdATB, IdANB, IdC, <<"z">>}}

DbInit == last_call = NoCall

\* the state of the database machine in the specifications that do not run it
DbIdle == DbInit

----------------------------------------------------------------------------
(* Bounds and input families of the resolution-pass specifications *)

MaxVisited  == 4    \* nodes one pass visits (SpecPass)
MaxChildren == 2    \* children of one Target (SpecSeed)
MaxIds      == 2    \* ids of one TargetIdentifier (SpecSeed)
MaxIdLen    == 3    \* characters of one identifier (SpecSanitize)
MaxCanonIds == 3    \* identifiers of one define_local_target call (SpecCanon)

\* SpecPass: few nodes, visited repeatedly
PassIds == {<<"a">>, <<"a", "-", "1">>, <<"b">>}
PassNodes ==
    {Target(Std, Label, <<TargetIdentifier(<<id>>)>>) : id \in PassIds}
        \cup {Target(Std, Label, <<>>), Target(Std, Label, <<TargetIdentifier(<<>>)>>),
              TextNode}

\* SpecSeed: one Target with every shape of children over a few identifiers
\* (the ids of one TargetIdentifier are a set: no identifier twice)
SeedIds == {<<"a">>, <<"b">>, <<"a", "b", "c">>}
SeedIdLists == {ids \in SeqsUpTo(SeedIds, MaxIds) : IsInjective(ids)}
SeedChildren == {TargetIdentifier(ids) : ids \in SeedIdLists} \cup {TextNode}
SeedNodes == {Target(Std, Label, ch) : ch \in SeqsUpTo(SeedChildren, MaxChildren)}

\* SpecSanitize: one Target with one identifier over valid and invalid characters
SanitizeAlphabet == {"a", "*", " ", "-", ".", "U00E9"}
SanitizeNodes ==
    {Target(Std, Label, <<TargetIdentifier(<<id>>)>>) : id \in SeqsUpTo(SanitizeAlphabet, MaxIdLen)}

\* SpecCanon: one Target with one TargetIdentifier, its ids with and without dots
CanonIds == {<<"a">>, <<"b">>, <<"a", ".", "b">>, <<"b", ".", "c">>, <<"a", ".", "b", ".", "c">>}
CanonNodes ==
    {Target(Std, Label, <<TargetIdentifier(ids)>>) : ids \in SeqsUpTo(CanonIds, MaxCanonIds)}

\* SpecAlias: one Target whose TargetIdentifiers hold plain and dotted names
AliasIds == {<<"v">>, <<"m", ".", "v">>, <<"d", ".", "m", ".", "v">>}
AliasIdLists == {<<x>> : x \in AliasIds} \cup {<<x, y>> : x, y \in AliasIds}
AliasIdentifiers == {TargetIdentifier(ids) : ids \in AliasIdLists}
AliasNodes ==
    {Target(Std, Label, <<t>>) : t \in AliasIdentifiers}
        \cup {Target(Std, Label, <<t, u>>) : t, u \in AliasIdentifiers}

NextPass     == EnterPage \/ \E n \in PassNodes : EnterNode(n, MaxVisited)
NextSeed     == EnterPage \/ \E n \in SeedNodes : EnterNode(n, 1)
NextSanitize == EnterPage \/ \E n \in SanitizeNodes : EnterNode(n, 1)
NextCanon    == EnterPage \/ \E n \in CanonNodes : EnterNode(n, 1)
NextAlias    == EnterPage \/ \E n \in AliasNodes : EnterNode(n, 1)

PassIdle == PassInit

\* a resolution pass starts; no migration and no splice is under way
InitPass ==
    PassInit /\ MigrateIdle /\ SpliceIdle /\ DbIdle /\ LinkIdle /\ TravIdle

SpecPass     == InitPass /\ [][NextPass]_vars
SpecSeed     == InitPass /\ [][NextSeed]_vars
SpecSanitize == InitPass /\ [][NextSanitize]_vars
SpecCanon    == InitPass /\ [][NextCanon]_vars
SpecAlias    == InitPass /\ [][NextAlias]_vars

NextMigrate == Migrate
InitMigrate ==
    PassIdle /\ MigrateInit /\ SpliceIdle /\ DbIdle /\ LinkIdle /\ TravIdle
SpecMigrate == InitMigrate /\ [][NextMigrate]_vars

NextSplice ==
    \/ \E b \in Bundles : StartTask(b)
    \/ \E b \in Bundles : ProducerSend(b)
    \/ \E b \in Bundles : ProducerPanic(b)
    \/ \E b \in Bundles : ProducerDone(b)
    \/ WriterRecvElement
    \/ WriterWriteFails
    \/ WriterRecvNone
    \/ WriterDisconnected
    \/ ScopeEnd
    \/ SendNone
    \/ JoinWriter
InitSplice ==
    PassIdle /\ MigrateIdle /\ SpliceInit /\ DbIdle /\ LinkIdle /\ TravIdle
SpecSplice == InitSplice /\ [][NextSplice]_vars

\* the same splice, started on the large bundle
InitFull ==
    PassIdle /\ MigrateIdle /\ SpliceInitLarge /\ DbIdle /\ LinkIdle /\ TravIdle
SpecFull == InitFull /\ [][NextSplice]_vars

\* splice on a file system where every write to the archive succeeds
NextSpliceWritesOk ==
    \/ \E b \in Bundles : StartTask(b)
    \/ \E b \in Bundles : ProducerSend(b)
    \/ \E b \in Bundles : ProducerPanic(b)
    \/ \E b \in Bundles : ProducerDone(b)
    \/ WriterRecvElement
    \/ WriterRecvNone
    \/ WriterDisconnected
    \/ ScopeEnd
    \/ SendNone
    \/ JoinWriter

\* the threads of splice are scheduled fairly: a worker of the pool, the writer
\* thread and the main thread each take their next step when they can
SpliceFairness ==
    /\ \A b \in 1..NumBundles :
            /\ WF_vars(StartTask(b))
            /\ WF_vars(ProducerSend(b))
            /\ WF_vars(ProducerPanic(b))
            /\ WF_vars(ProducerDone(b))
    /\ WF_vars(WriterRecvElement)
    /\ WF_vars(WriterRecvNone)
    /\ WF_vars(WriterDisconnected)
    /\ WF_vars(ScopeEnd)
    /\ WF_vars(SendNone)
    /\ WF_vars(JoinWriter)
SpecFullFair == InitFull /\ [][NextSpliceWritesOk]_vars /\ SpliceFairness

\* the same splice, started on bundles of sibling sites
InitSiblings ==
    PassIdle /\ MigrateIdle /\ SpliceInitSiblings /\ DbIdle /\ LinkIdle /\ TravIdle
SpecSiblings == InitSiblings /\ [][NextSplice]_vars

NextTraverse == TravRunAnalyzer \/ TravDescend \/ TravReturn
InitTraverse ==
    PassIdle /\ MigrateIdle /\ SpliceIdle /\ DbIdle /\ LinkIdle /\ TravInit
SpecTraverse == InitTraverse /\ [][NextTraverse]_vars

NextDb ==
    \/ \E n \in DbNames, targets \in DbTargetLists, p \in DbPages :
            DbDefine(Std, n, targets, p.pageid, p.html5_id)
    \/ \E key \in DbKeys : DbGet(key)
InitDb ==
    PassInit /\ MigrateIdle /\ SpliceIdle /\ DbInit /\ LinkIdle /\ TravIdle
SpecDb == InitDb /\ [][NextDb]_vars

NextLink ==
    \/ \E b \in LinkJobs : LinkStart(b)
    \/ \E b \in LinkJobs : LinkNextEntry(b)
    \/ \E b \in LinkJobs : LinkEntryPanic(b)
    \/ \E b \in LinkJobs : LinkJobDone(b)
    \/ \E b \in LinkJobs : LinkEnterNode(b)
    \/ \E b \in LinkJobs : LinkLock(b)
    \/ \E b \in LinkJobs : LinkLockPoisoned(b)
    \/ \E b \in LinkJobs : LinkDefine(b)
    \/ \E b \in LinkJobs : LinkUnlock(b)
    \/ LinkScopeEnd
InitLink ==
    PassIdle /\ MigrateIdle /\ SpliceIdle /\ DbIdle /\ LinkInit /\ TravIdle
SpecLink == InitLink /\ [][NextLink]_vars

\* link followed by splice on the same BundleSet.  The bundles link is run on
\* here: one with an asset and a document of two Targets, the second with an
\* html id stored in the archive; one with nothing but diagnostics; one whose
\* Target has a TargetIdentifier with no ids; one whose document fails to decode
OldId == <<"o", "l", "d">>

StitchBundles ==
    { [metadata |-> Metadata("ns1", "main"),
       archive |-> << File(<<"assets", "h1">>, Raw("png1")),
                      File(<<"documents", "index.bson">>,
                           [kind |-> "document", document |->
                              LinkDocument(<<Target(Std, Label,
                                  <<TargetIdentifier(<<IdA>>), TargetIdentifier(<<IdB>>)>>),
                                  [Target(Std, Label, <<TargetIdentifier(<<IdA>>)>>)
                                        EXCEPT !.html_id = Some(OldId)]>>)]) >>],
      [metadata |-> Metadata("ns2", "main"),
       archive |-> << File(<<"diagnostics", "index.bson">>, DiagBody) >>],
      [metadata |-> Metadata("ns3", "main"),
       archive |-> << File(<<"documents", "index.bson">>,
                           [kind |-> "document", document |->
                              LinkDocument(<<Target(Std, Label,
                                  <<TargetIdentifier(<<IdB>>), TargetIdentifier(<<>>)>>)>>)]) >>],
      [metadata |-> Metadata("ns4", "main"),
       archive |-> << File(<<"documents", "bad.bson">>, Raw("junk")) >>] }

\* BundleSet::new followed by the start of link
LinkInitStitch ==
    /\ link_bundles \in [1..NumLinkBundles -> StitchBundles]
    /\ link_cpus \in 1..MaxCpus
    /\ link_task = [b \in 1..NumLinkBundles |-> "queued"]
    /\ link_index = [b \in 1..NumLinkBundles |-> 1]
    /\ link_page = [b \in 1..NumLinkBundles |-> None]
    /\ link_counter = [b \in 1..NumLinkBundles |-> <<>>]
    /\ link_nodes = [b \in 1..NumLinkBundles |-> <<>>]
    /\ link_pc = [b \in 1..NumLinkBundles |-> "iterate"]
    /\ link_pending = [b \in 1..NumLinkBundles |-> NoPending]
    /\ db_lock = 0
    /\ link_visited = [b \in 1..NumLinkBundles |-> <<>>]
    /\ db_log = <<>>
    /\ link_main = "scoped"

\* splice has not been called yet
SpliceNotStarted ==
    /\ bundles = <<>>
    /\ n_cpus = 1
    /\ task = <<>>
    /\ index = <<>>
    /\ channel = <<>>
    /\ writer = "running"
    /\ stored_assets = {}
    /\ out_bundle = <<>>
    /\ sealed = FALSE
    /\ skipped = {}
    /\ main = "not_started"

\* link has returned Ok, which drops its local database with the calls made on
\* it, and splice is called on the same BundleSet: the site metadata is written,
\* the writer thread is spawned and one job is queued for each bundle of
\* self.bundles, whose iterator starts at index 0
SpliceAfterLink ==
    /\ link_main = "returned_ok"
    /\ main = "not_started"
    /\ local_definitions' = <<>>
    /\ db_log' = <<>>
    /\ bundles' = link_bundles
    /\ n_cpus' = link_cpus
    /\ task' = [b \in LinkJobs |-> "queued"]
    /\ index' = [b \in LinkJobs |-> 1]
    /\ out_bundle' = <<SiteEntry>>
    /\ main' = "scoped"
    /\ UNCHANGED <<channel, writer, stored_assets, sealed, skipped>>
    /\ UNCHANGED <<page, target_counter, visited, pass_panicked>>
    /\ UNCHANGED <<link_bundles, link_cpus, link_task, link_index, link_page, link_counter,
                   link_nodes, link_pc, link_pending, db_lock, link_visited, link_main>>
    /\ UNCHANGED <<migrateVars, dbVars, travVars>>

\* the steps of link, the call of splice and the steps of splice.  After a link
\* that returned Ok every entry of the bundles decodes, so a job of splice
\* panics only once the writer has gone: the writer never finds the channel
\* disconnected, and WriterDisconnected is not among its steps here
NextStitch ==
    \/ \E b \in LinkJobs : LinkStart(b)
    \/ \E b \in LinkJobs : LinkNextEntry(b)
    \/ \E b \in LinkJobs : LinkEntryPanic(b)
    \/ \E b \in LinkJobs : LinkJobDone(b)
    \/ \E b \in LinkJobs : LinkEnterNode(b)
    \/ \E b \in LinkJobs : LinkLock(b)
    \/ \E b \in LinkJobs : LinkLockPoisoned(b)
    \/ \E b \in LinkJobs : LinkDefine(b)
    \/ \E b \in LinkJobs : LinkUnlock(b)
    \/ LinkScopeEnd
    \/ SpliceAfterLink
    \/ \E b \in Bundles : StartTask(b)
    \/ \E b \in Bundles : ProducerSend(b)
    \/ \E b \in Bundles : ProducerPanic(b)
    \/ \E b \in Bundles : ProducerDone(b)
    \/ WriterRecvElement
    \/ WriterWriteFails
    \/ WriterRecvNone
    \/ ScopeEnd
    \/ SendNone
    \/ JoinWriter
InitStitch ==
    PassIdle /\ MigrateIdle /\ SpliceNotStarted /\ DbIdle /\ LinkInitStitch /\ TravIdle
SpecStitch == InitStitch /\ [][NextStitch]_vars

----------------------------------------------------------------------------
(* Claims about the resolution pass *)

\* the visited Targets that were assigned an html_id
Assigned == {i \in 1..Len(visited) : visited[i].type = "target" /\ visited[i].html_id # None}

\* C1: within one pass the html_id values assigned to the Targets are pairwise
\* distinct.
C1_HtmlIdsPairwiseDistinct ==
    \A i, j \in Assigned : i # j => visited[i].html_id # visited[j].html_id

\* the candidate string of a visited Target: {domain}-{name}-{sanitized seed}
CandidateOfVisited(i) == CandidateHtmlId(visited[i], ChosenId(visited[i])[1])

\* how many Targets up to and including the i-th visited had the same candidate
Occurrence(i) ==
    Cardinality({j \in Assigned : j <= i /\ CandidateOfVisited(j) = CandidateOfVisited(i)})

\* C7: the first Target with candidate c receives c unchanged, the k-th (k >= 2)
\* receives c followed by "-" and k-1.
C7_KthOccurrenceSuffix ==
    \A i \in Assigned :
        visited[i].html_id =
            Some(IF Occurrence(i) = 1
                 THEN CandidateOfVisited(i)
                 ELSE CandidateOfVisited(i) \o <<"-">> \o ToDecimal(Occurrence(i) - 1))

\* s is the element of strs that is maximal under Key, the last such / the first such
IsLastMax(strs, Key(_), s) ==
    \E i \in 1..Len(strs) :
        /\ strs[i] = s
        /\ \A j \in 1..Len(strs) : Key(strs[j]) <= Key(s)
        /\ \A j \in (i + 1)..Len(strs) : Key(strs[j]) < Key(s)

IsFirstMax(strs, Key(_), s) ==
    \E i \in 1..Len(strs) :
        /\ strs[i] = s
        /\ \A j \in 1..Len(strs) : Key(strs[j]) <= Key(s)
        /\ \A j \in 1..(i - 1) : Key(strs[j]) < Key(s)

\* the ids lists of the TargetIdentifier children of t that have an id, in order
IdLists(t) ==
    LET ch == t.children
        keep == [i \in 1..Len(ch) |->
                    IF ch[i].type = "target_identifier" THEN ch[i].ids # <<>> ELSE FALSE]
        kept == SelectIdx(ch, keep, 1)
    IN  [k \in 1..Len(kept) |-> kept[k].ids]

Range(f) == {f[i] : i \in DOMAIN f}

\* seed is the longest representative, each representative the longest id of its
\* list, ties going to the last (Last = TRUE) or to the first (Last = FALSE)
SeedIs(t, seed, Last) ==
    LET lists == IdLists(t)
        Pick(strs, s) == IF Last THEN IsLastMax(strs, Len, s) ELSE IsFirstMax(strs, Len, s)
        reps == [k \in 1..Len(lists) |-> CHOOSE s \in Range(lists[k]) : Pick(lists[k], s)]
    IN  Pick(reps, seed)

HtmlIdFor(t, sanitized) == Some(t.domain \o <<"-">> \o t.name \o <<"-">> \o sanitized)

\* C8 as claimed: the anchor seed is the longest representative, each representative
\* the longest id of its TargetIdentifier, and of equally long candidates the one
\* encountered EARLIEST is chosen.  (The identifiers of SpecSeed need no sanitizing.)
C8_SeedEarliestLongest ==
    \A i \in Assigned :
        \E seed \in UNION {Range(l) : l \in Range(IdLists(visited[i]))} :
            /\ SeedIs(visited[i], seed, FALSE)
            /\ visited[i].html_id = HtmlIdFor(visited[i], seed)

\* C8 as amended: the anchor seed is the longest representative, each representative
\* the longest id of its TargetIdentifier, and of equally long candidates the one
\* encountered LATEST is chosen (later in the ids list, or in the later child).
C8_SeedLatestLongest ==
    \A i \in Assigned :
        \E seed \in UNION {Range(l) : l \in Range(IdLists(visited[i]))} :
            /\ SeedIs(visited[i], seed, TRUE)
            /\ visited[i].html_id = HtmlIdFor(visited[i], seed)

\* a Target with the sets {a, abc} and {b} got the seed abc, and one with ties inside
\* a list and between the representatives got the latest
C8_Witness ==
    /\ Len(visited) = 1
    /\ visited[1].type = "target"
    /\ \/ /\ IdLists(visited[1]) = << <<<<"a">>, <<"a", "b", "c">>>>, <<<<"b">>>> >>
          /\ visited[1].html_id = HtmlIdFor(visited[1], <<"a", "b", "c">>)
       \/ /\ IdLists(visited[1]) = << <<<<"a">>, <<"b">>>>, <<<<"b">>, <<"a">>>> >>
          /\ visited[1].html_id = HtmlIdFor(visited[1], <<"a">>)

\* the single identifier of a visited Target of SpecSanitize
OnlyId(i) == visited[i].children[1].ids[1]

\* the characters of SanitizeAlphabet outside [A-Za-z0-9_.-], and those among them
\* that the pattern [^\w_.-] matches (a non-ASCII letter is a word character)
OutsideAsciiIdChars == {"*", " ", "U00E9"}
RejectedChars == {"*", " "}

Dashes(n) == [k \in 1..n |-> "-"]

\* C9 as claimed: a non-empty identifier made only of characters outside
\* [A-Za-z0-9_.-] is sanitized to "unnamed": html_id = {domain}-{name}-unnamed.
C9_OnlyDisallowedGivesUnnamed ==
    \A i \in Assigned :
        (OnlyId(i) # <<>> /\ \A k \in 1..Len(OnlyId(i)) : OnlyId(i)[k] \in OutsideAsciiIdChars)
            => visited[i].html_id = HtmlIdFor(visited[i], Unnamed)

\* C9 as amended: a non-empty identifier made only of characters the pattern
\* [^\w_.-] matches is sanitized to as many "-" characters, never to "unnamed";
\* only the empty identifier is sanitized to "unnamed".
C9_OnlyRejectedGivesDashes ==
    \A i \in Assigned :
        /\ OnlyId(i) = <<>> => visited[i].html_id = HtmlIdFor(visited[i], Unnamed)
        /\ (OnlyId(i) # <<>> /\ \A k \in 1..Len(OnlyId(i)) : OnlyId(i)[k] \in RejectedChars)
                => visited[i].html_id = HtmlIdFor(visited[i], Dashes(Len(OnlyId(i))))
        /\ OnlyId(i) # <<>> => visited[i].html_id # HtmlIdFor(visited[i], Unnamed)

\* the identifier *** has been sanitized
C9_Witness ==
    \E i \in Assigned :
        /\ OnlyId(i) = <<"*", "*", "*">>
        /\ visited[i].html_id = HtmlIdFor(visited[i], <<"-", "-", "-">>)

\* every LocalDefinition in the database
AllDefinitions == UNION {Range(local_definitions[k]) : k \in DOMAIN local_definitions}

\* C10 as claimed: the canonical_name of every LocalDefinition one
\* define_local_target call creates is the identifier with the most '.'
\* characters, the EARLIEST in the list when several tie.
C10_CanonicalEarliestMostDots ==
    \A i \in Assigned : \A d \in AllDefinitions :
        IsFirstMax(visited[i].children[1].ids, CountDots, d.canonical_name)

\* C10 as amended: the canonical_name of every LocalDefinition one
\* define_local_target call creates is the identifier with the most '.'
\* characters, the LATEST in the list when several tie (also when none has a '.').
C10_CanonicalLatestMostDots ==
    \A i \in Assigned : \A d \in AllDefinitions :
        IsLastMax(visited[i].children[1].ids, CountDots, d.canonical_name)

\* definitions were created for a list whose dot counts tie, and for one without dots
C10_Witness ==
    /\ AllDefinitions # {}
    /\ \E i \in Assigned :
          \/ /\ visited[i].children[1].ids = << <<"a", ".", "b">>, <<"b", ".", "c">>, <<"a">> >>
             /\ \A d \in AllDefinitions : d.canonical_name = <<"b", ".", "c">>
          \/ /\ visited[i].children[1].ids = << <<"a">>, <<"b">> >>
             /\ \A d \in AllDefinitions : d.canonical_name = <<"b">>

----------------------------------------------------------------------------
(* Claims about migration *)

RECURSIVE MigratedEverywhere(_, _)
\* node with every Root fileid and every resolved RefRole fileid joined to ns,
\* in every node-valued field (children, argument, term), anchors untouched
MigratedEverywhere(ns, node) ==
    LET Each(nodes) == [i \in 1..Len(nodes) |-> MigratedEverywhere(ns, nodes[i])]
        own == IF node.type = "root" THEN [node EXCEPT !.fileid = Join(ns, @)]
               ELSE IF node.type = "ref_role" /\ node.fileid # None
                    THEN [node EXCEPT !.fileid = Some(<<Join(ns, @[1][1]), @[1][2]>>)]
                    ELSE node
    IN  CASE node.type = "text" -> own
          [] node.type = "directive" ->
                [own EXCEPT !.children = Each(@), !.argument = Each(@)]
          [] node.type = "definitionListItem" ->
                [own EXCEPT !.children = Each(@), !.term = Each(@)]
          [] OTHER -> [own EXCEPT !.children = Each(@)]

\* C5: after migrate(ns) the storage name is ns joined with the old name; for a
\* Document page_id is ns joined with the old page_id, every Root fileid is ns
\* joined with the old path, every resolved RefRole fileid is ns joined with the
\* old one with its anchor unchanged, an unresolved RefRole stays unresolved; an
\* Asset or Diagnostics payload is unchanged.
C5_MigrateRewritesEverything ==
    applied = 1 =>
        /\ element.name = Join(namespace, original.name)
        /\ element.data.kind = original.data.kind
        /\ element.data.kind = "Document" =>
                /\ element.data.document.page_id =
                        Join(namespace, original.data.document.page_id)
                /\ element.data.document.ast =
                        MigratedEverywhere(namespace, original.data.document.ast)
        /\ element.data.kind # "Document" => element.data = original.data

----------------------------------------------------------------------------
(* Claims about the splice phase *)

\* the archive entries of bundle b that iteration turns into an element of `kinds`
\* (a file with a permitted path under that top-level directory)
InputEntries(b, kinds) ==
    {i \in 1..Len(bundles[b].archive) :
        LET e == bundles[b].archive[i]
        IN  IF e.enclosed_name = None \/ ~e.is_file THEN FALSE
            ELSE e.enclosed_name[1].parts[1] \in kinds}

InputSrcs(kinds) == UNION {{<<b, i>> : i \in InputEntries(b, kinds)} : b \in Bundles}

\* the content hash of the asset read from src: the final component of its path
HashOfSrc(src) ==
    LET parts == bundles[src[1]].archive[src[2]].enclosed_name[1].parts
    IN  parts[Len(parts)]

\* the indices of the output entries holding a payload of `kinds`
OutEntries(kinds) ==
    {k \in 1..Len(out_bundle) :
        IF out_bundle[k].src = <<0, 0>> THEN FALSE ELSE out_bundle[k].data.kind \in kinds}

WrittenSrcs(kinds) == {out_bundle[k].src : k \in OutEntries(kinds)}

\* C2: assets whose migrated name has the same final path component produce one
\* output entry assets/<hash>, without namespace: the first one dequeued is
\* written, every later one is skipped.
C2_OneEntryPerAssetHash ==
    /\ \A k \in OutEntries({"Asset"}) :
            out_bundle[k].path = RelPath(<<"assets", HashOfSrc(out_bundle[k].src)>>)
    /\ \A k, l \in OutEntries({"Asset"}) : k # l => out_bundle[k].path # out_bundle[l].path
    /\ \A s \in skipped :
            \E k \in OutEntries({"Asset"}) :
                /\ out_bundle[k].src # s
                /\ HashOfSrc(out_bundle[k].src) = HashOfSrc(s)
    /\ skipped \cap WrittenSrcs({"Asset"}) = {}
    /\ main = "returned_ok" =>
            \A s \in InputSrcs({"assets"}) :
                Cardinality({k \in OutEntries({"Asset"}) :
                    out_bundle[k].path = RelPath(<<"assets", HashOfSrc(s)>>)}) = 1

\* two bundles held an asset h1: one was written at assets/h1, the other skipped
C2_Witness ==
    /\ main = "returned_ok"
    /\ skipped # {}
    /\ \E k \in OutEntries({"Asset"}) : out_bundle[k].path = RelPath(<<"assets", "h1">>)
    /\ bundles[1].metadata # bundles[2].metadata

\* C3: after a successful splice no element is lost or duplicated: the document
\* and diagnostics entries of the output are those of the inputs, one each, and
\* there are as many asset entries as distinct hashes in the inputs.
C3_NothingLostOrDuplicated ==
    main = "returned_ok" =>
        /\ WrittenSrcs({"Document", "Diagnostics"}) = InputSrcs({"documents", "diagnostics"})
        /\ Cardinality(OutEntries({"Document", "Diagnostics"}))
                = Cardinality(InputSrcs({"documents", "diagnostics"}))
        /\ Cardinality(OutEntries({"Asset"}))
                = Cardinality({HashOfSrc(s) : s \in InputSrcs({"assets"})})
        /\ Len(out_bundle) = 1 + Cardinality(OutEntries({"Document", "Diagnostics", "Asset"}))

\* a splice of two different bundles succeeded with documents, diagnostics and a
\* shared asset
C3_Witness ==
    /\ main = "returned_ok"
    /\ Cardinality(OutEntries({"Document", "Diagnostics"})) >= 2
    /\ Cardinality(InputSrcs({"assets"})) > Cardinality(OutEntries({"Asset"}))
    /\ OutEntries({"Asset"}) # {}

Sentinels == {k \in 1..Len(channel) : IsSentinel(channel[k])}

\* C4: finish is called only after the sentinel is dequeued; the sentinel is sent
\* once, after every producer task has completed and after every element; when
\* the archive is sealed every element sent has been written or skipped.
C4_SealedOnlyAfterEverything ==
    /\ Cardinality(Sentinels) <= 1
    /\ \A k \in Sentinels : k = Len(channel)
    /\ main \in {"scoped", "send_none"} => Sentinels = {} /\ ~sealed
    /\ (Sentinels # {} \/ sealed) => \A b \in Bundles : task[b] = "done"
    /\ sealed =>
        /\ channel = <<>>
        /\ writer = "finished"
        /\ InputSrcs({"documents", "diagnostics", "assets"})
                = WrittenSrcs({"Document", "Diagnostics", "Asset"}) \cup skipped

\* the archive was sealed after elements were written and an asset skipped
C4_Witness ==
    /\ sealed
    /\ skipped # {}
    /\ Len(out_bundle) >= 3

\* the element read from src, as iteration yields it
ReadFrom(src) == BundleNext(src[1], bundles[src[1]].archive, src[2]).item[1].value

\* the element read from src after one call of migrate with its bundle's namespace
MigratedOnce(src) == migrate(ReadFrom(src), get_namespace(bundles[src[1]].metadata))

\* C6: every element on the channel, and every element the writer dequeued and
\* wrote, has had migrate applied exactly once with the namespace of its bundle.
C6_MigratedExactlyOnce ==
    /\ \A k \in 1..Len(channel) :
            ~IsSentinel(channel[k]) => channel[k][1] = MigratedOnce(channel[k][1].src)
    /\ \A k \in OutEntries({"Document", "Diagnostics", "Asset"}) :
            out_bundle[k].data = MigratedOnce(out_bundle[k].src).data

\* the writer has written a migrated document of ns1/main while a migrated
\* element of ns2/main waits on the channel
C6_Witness ==
    /\ \E k \in OutEntries({"Document"}) :
            out_bundle[k].data.document.page_id = RelPath(<<"ns1", "main", "index">>)
    /\ \E k \in 1..Len(channel) :
            /\ ~IsSentinel(channel[k])
            /\ SubSeq(channel[k][1].name.parts, 1, 2) = <<"ns2", "main">>

----------------------------------------------------------------------------
(* Claims about the link phase *)

\* the Targets the link jobs entered and gave an html_id: (job, position)
LinkAssigned ==
    UNION {{<<b, i>> : i \in {k \in 1..Len(link_visited[b]) :
                                    link_visited[b][k].html_id # None}} : b \in LinkJobs}

\* C11: the html_id values assigned during link are globally unique: no two
\* Targets, in the same bundle or in different bundles, have the same html_id.
C11_LinkHtmlIdsGloballyUnique ==
    \A t, u \in LinkAssigned :
        t # u => link_visited[t[1]][t[2]].html_id # link_visited[u[1]][u[2]].html_id

\* the jobs that are between lock() and the end of enter_node
InsideLock == {b \in LinkJobs : link_task[b] = "running" /\ link_pc[b] = "define"}

\* C12: all registrations of one Target are made under a single acquisition of
\* the database lock: the calls for one Target are consecutive in the order of
\* all calls, and no two jobs are ever inside the locked region together.
C12_RegistrationsOfATargetAtomic ==
    /\ \A i, j, k \in 1..Len(db_log) :
            (i < j /\ j < k /\ db_log[i] = db_log[k]) => db_log[j] = db_log[i]
    /\ Cardinality(InsideLock) <= 1
    /\ \A b \in InsideLock : db_lock = b

\* one job has registered the first of two TargetIdentifiers and holds the lock
\* while another job waits for it
C12_Witness ==
    \E b, c \in LinkJobs :
        /\ b # c
        /\ link_task[b] = "running" /\ link_pc[b] = "define"
        /\ Len(link_pending[b].identifiers) = 1
        /\ db_log # <<>> /\ db_log[Len(db_log)] = <<b, Len(link_visited[b])>>
        /\ link_task[c] = "running" /\ link_pc[c] = "lock"

----------------------------------------------------------------------------
(* Claims about the target database *)

Whitespace == {" ", "\t", "\n"}

\* str with every run of whitespace written as one space
CollapseRuns(str) ==
    LET Kept == [i \in 1..Len(str) |->
                    ~(str[i] \in Whitespace /\ i > 1 /\ str[i - 1] \in Whitespace)]
        spaced == [i \in 1..Len(str) |-> IF str[i] \in Whitespace THEN " " ELSE str[i]]
    IN  SelectIdx(spaced, Kept, 1)

\* k and l differ only in the length or kind of their whitespace runs
SameUpToWhitespaceRuns(k, l) == CollapseRuns(k) = CollapseRuns(l)

\* the key an identifier of the last define call is stored under
KeyOfTarget(id) ==
    last_call.domain \o <<":">> \o last_call.name \o <<":">> \o CollapseRuns(id)

ListAt(defs, key) == IF key \in DOMAIN defs THEN defs[key] ELSE <<>>

\* C13: the database is append-only: define_local_target appends one
\* LocalDefinition per identifier passed, duplicates and identifiers with the
\* same key included, at the end of the key's list; every earlier list is a
\* prefix of the later one.
C13_AppendOnly ==
    (last_call.op = "define" /\ ~last_call.panicked) =>
        LET before == last_call.before
            now    == local_definitions
            Passed(key) == {i \in 1..Len(last_call.targets) :
                                KeyOfTarget(last_call.targets[i]) = key}
        IN  /\ DOMAIN now = DOMAIN before \cup {KeyOfTarget(last_call.targets[i]) :
                                                    i \in 1..Len(last_call.targets)}
            /\ \A key \in DOMAIN now :
                /\ Len(now[key]) = Len(ListAt(before, key)) + Cardinality(Passed(key))
                /\ SubSeq(now[key], 1, Len(ListAt(before, key))) = ListAt(before, key)
                /\ \A j \in (Len(ListAt(before, key)) + 1)..Len(now[key]) :
                        /\ now[key][j].html5_id = last_call.html5_id
                        /\ now[key][j].fileid = last_call.pageid
            /\ TotalDefinitions(now) = TotalDefinitions(before) + Len(last_call.targets)

\* two identifiers with the same key were appended to a list that had an entry
C13_Witness ==
    /\ last_call.op = "define"
    /\ last_call.targets = <<IdAB, IdATB>>
    /\ \E key \in DOMAIN last_call.before :
            /\ key = KeyOfTarget(IdAB)
            /\ Len(local_definitions[key]) = Len(last_call.before[key]) + 2
            /\ last_call.before[key][1].html5_id # last_call.html5_id

\* the FileId strings of the pages without their known suffix
SuffixStripped(pageid) ==
    IF pageid = FileId(<< <<"f", "o", "o">>, <<"b", "a", "r", ".", "t", "x", "t">> >>)
    THEN <<"f", "o", "o", "/", "b", "a", "r">>
    ELSE IF pageid = FileId(<< <<"b", "a", "r", ".", "p", "n", "g">> >>)
         THEN <<"b", "a", "r", ".", "p", "n", "g">>
         ELSE <<"/", "f", "o", "o", "/", "b", "a", "r">>

\* C14: lookup and definition normalize identically: after define_local_target,
\* get of every key that differs from {domain}:{name}:{id} only in its
\* whitespace runs returns a result with the html id and the suffix-stripped
\* fileid of the definition; get of a key never defined returns the empty list,
\* and get does not modify the database.
C14_LookupNormalizesAsDefinition ==
    /\ (last_call.op = "define" /\ ~last_call.panicked) =>
            \A i \in 1..Len(last_call.targets) : \A k \in DbKeys :
                SameUpToWhitespaceRuns(k, RawKey(last_call.domain, last_call.name,
                                                 last_call.targets[i]))
                => \E j \in 1..Len(get(local_definitions, k).results) :
                        get(local_definitions, k).results[j].result
                            = <<SuffixStripped(last_call.pageid), last_call.html5_id>>
    /\ last_call.op = "get" =>
            /\ local_definitions = last_call.before
            /\ (\A key \in DOMAIN local_definitions :
                    ~SameUpToWhitespaceRuns(key, last_call.key)) => last_call.results = <<>>

----------------------------------------------------------------------------
(* Further claims about the splice phase *)

\* the archive indices of the elements of bundle b on the channel, in order
RECURSIVE ChannelIndices(_, _)
ChannelIndices(b, ch) ==
    IF ch = <<>> THEN <<>>
    ELSE (IF ~IsSentinel(Head(ch)) /\ Head(ch)[1].src[1] = b
          THEN <<Head(ch)[1].src[2]>> ELSE <<>>) \o ChannelIndices(b, Tail(ch))

\* the archive indices of the entries of bundle b in the output, in order
RECURSIVE WrittenIndices(_, _)
WrittenIndices(b, out) ==
    IF out = <<>> THEN <<>>
    ELSE (IF Head(out).src[1] = b THEN <<Head(out).src[2]>> ELSE <<>>)
            \o WrittenIndices(b, Tail(out))

Increasing(s) == \A i, j \in 1..Len(s) : i < j => s[i] < s[j]

\* C15: the elements of one bundle are dequeued, and written unless skipped, in
\* the bundle's iteration order, whatever the other producers do: what is still
\* on the channel comes after everything of that bundle already dequeued, and
\* both the channel and the output keep the bundle's order.
C15_BundleOrderPreserved ==
    \A b \in Bundles :
        LET waiting == ChannelIndices(b, channel)
            written == WrittenIndices(b, out_bundle)
            dequeued == {written[i] : i \in 1..Len(written)}
                            \cup {s[2] : s \in {t \in skipped : t[1] = b}}
        IN  /\ Increasing(waiting)
            /\ Increasing(written)
            /\ \A i \in 1..Len(waiting) : \A d \in dequeued : d < waiting[i]

\* two elements of one bundle were written around an element of another bundle
C15_Witness ==
    \E i, j, k \in 1..Len(out_bundle) :
        /\ i < j /\ j < k
        /\ out_bundle[i].src[1] = out_bundle[k].src[1]
        /\ out_bundle[i].src[1] # 0
        /\ out_bundle[j].src[1] \notin {0, out_bundle[i].src[1]}

\* the relative path of an archive entry below its top-level directory
BelowCategory(src) == Tail(bundles[src[1]].archive[src[2]].enclosed_name[1].parts)

BadEntries(b) ==
    {i \in InputEntries(b, {"documents", "diagnostics"}) :
        bundles[b].archive[i].body.kind \notin {"document", "diagnostics"}}

SomethingFailed ==
    \/ \E b \in Bundles : task[b] = "panicked"
    \/ writer \in {"failed", "panicked"}

\* C18: splice has no partial success: once an item of a bundle is an error or
\* a write has failed, finish is never called and splice does not return Ok;
\* splice returns Ok only after finish was called, once, with every element of
\* every bundle written or skipped.
C18_NoPartialSuccess ==
    /\ SomethingFailed => ~sealed /\ main # "returned_ok"
    /\ sealed => writer = "finished"
    /\ main = "returned_ok" =>
        /\ sealed
        /\ \A b \in Bundles : task[b] = "done" /\ BadEntries(b) = {}
        /\ channel = <<>>
        /\ InputSrcs({"documents", "diagnostics", "assets"})
                = WrittenSrcs({"Document", "Diagnostics", "Asset"}) \cup skipped

\* a producer met an item that failed to decode after the writer had written
\* elements of another bundle; splice has panicked and the archive is not sealed
C18_Witness ==
    /\ main = "panicked"
    /\ \E b \in Bundles : task[b] = "panicked" /\ BadEntries(b) # {}
    /\ Len(out_bundle) >= 3
    /\ ~sealed

\* an entry that iteration turns into an item: a file with a permitted path
\* whose first component is one of the three directories
Yields(entry) ==
    /\ entry.enclosed_name # None
    /\ entry.is_file
    /\ entry.enclosed_name[1].parts[1] \in {"documents", "assets", "diagnostics"}

KindOfPrefix(prefix) ==
    CASE prefix = "documents" -> "Document"
      [] prefix = "assets" -> "Asset"
      [] prefix = "diagnostics" -> "Diagnostics"

\* C19: iteration classifies a file entry by its first path component alone and
\* names the element by the rest of the path; the metadata record, unsafe
\* paths, non-file entries and other prefixes yield nothing and iteration goes
\* on with the next entry; every entry is examined once and iteration ends
\* after the last entry.
C19_IterationClassifiesByPrefix ==
    \A b \in Bundles : \A idx \in 1..(Len(bundles[b].archive) + 1) :
        LET archive == bundles[b].archive
            r == BundleNext(b, archive, idx)
            ahead == {j \in idx..Len(archive) : Yields(archive[j])}
        IN  IF ahead = {}
            THEN r.item = None /\ r.index = Len(archive) + 1
            ELSE LET j == CHOOSE x \in ahead : \A y \in ahead : x <= y
                     parts == archive[j].enclosed_name[1].parts
                 IN  /\ r.index = j + 1
                     /\ r.item # None
                     /\ r.item[1].ok =>
                            /\ r.item[1].value.data.kind = KindOfPrefix(parts[1])
                            /\ r.item[1].value.name = RelPath(Tail(parts))
                            /\ r.item[1].value.src = <<b, j>>

\* the job of a bundle that holds an unsafe path and an entry under no known
\* prefix has passed them and finished; its diagnostics record was written
C19_Witness ==
    \E b \in Bundles :
        /\ task[b] = "done"
        /\ \E i \in 1..Len(bundles[b].archive) : bundles[b].archive[i].enclosed_name = None
        /\ \E i \in 1..Len(bundles[b].archive) :
                /\ bundles[b].archive[i].enclosed_name # None
                /\ bundles[b].archive[i].enclosed_name[1].parts = <<"readme">>
        /\ index[b] = Len(bundles[b].archive) + 1
        /\ \E k \in OutEntries({"Diagnostics"}) : out_bundle[k].src[1] = b

\* a producer that has read its next item and is in send
Sending == {b \in Bundles : task[b] = "running"
                /\ BundleNext(b, bundles[b].archive, index[b]).item # None}

\* C16: the channel is bounded: never more than the capacity (10) is sent and
\* not yet dequeued; while the channel is full no producer gets an element in,
\* the only change is a dequeue by the writer; while it is empty the writer
\* writes nothing and does not finish.
C16_ChannelBounded ==
    /\ [](Len(channel) <= Capacity)
    /\ [][Len(channel) = Capacity /\ channel' # channel => channel' = Tail(channel)]_vars
    /\ [][channel = <<>> =>
            out_bundle' = out_bundle /\ skipped' = skipped /\ sealed' = sealed]_vars

\* the channel is full and the producer of the large bundle waits with its
\* last element
C16_Witness ==
    /\ Len(channel) = Capacity
    /\ 1 \in Sending
    /\ index[1] = Capacity + 1
    /\ writer = "running"

----------------------------------------------------------------------------
(* Further claims about the resolution pass *)

\* a Target with no TargetIdentifier child, or only ones with empty ids lists
NoIdentifiers(node) ==
    /\ node.type = "target"
    /\ \A i \in 1..Len(node.children) :
            node.children[i].type = "target_identifier" => node.children[i].ids = <<>>

\* C20: a Target that has no identifiers is skipped without error: its html_id
\* stays None, the disambiguation counters and the Target Database are unchanged.
C20_NoIdentifiersSkipped ==
    [][(Len(visited') = Len(visited) + 1 /\ NoIdentifiers(visited'[Len(visited')])) =>
            /\ visited'[Len(visited')].html_id = None
            /\ target_counter' = target_counter
            /\ local_definitions' = local_definitions
            /\ pass_panicked' = pass_panicked]_vars

\* after a Target that was given an id, the pass has entered a Target whose only
\* TargetIdentifier has no ids, and one without children
C20_Witness ==
    /\ ~pass_panicked
    /\ target_counter # <<>>
    /\ local_definitions # <<>>
    /\ \E i, j \in 2..Len(visited) :
            /\ NoIdentifiers(visited[i]) /\ visited[i].children # <<>>
            /\ NoIdentifiers(visited[j]) /\ visited[j].children = <<>>
            /\ visited[1].type = "target" /\ visited[1].html_id # None

\* C21: the resolution pass never fails on a malformed identifier set: whatever
\* the TargetIdentifier children of a Target carry (an empty ids list on some or
\* all of them), enter_node completes without panicking.
C21_EnterNodeNeverPanics == ~pass_panicked

----------------------------------------------------------------------------
(* Claims about FileIds *)

\* the FileIds the database holds
StoredFileIds ==
    UNION {{local_definitions[key][j].fileid : j \in 1..Len(local_definitions[key])} :
                key \in DOMAIN local_definitions}

StartsWithSlash(str) == str # <<>> /\ str[1] = "/"

\* the fileid strings of the results of the last lookup
ResultFileIds == {last_call.results[j].result[1] : j \in 1..Len(last_call.results)}

\* C22 as claimed: a FileId never contains a root component: no FileId reachable
\* in the program renders through as_posix to a string beginning with "/".
C22_NoFileIdRendersRooted ==
    /\ \A f \in StoredFileIds : ~StartsWithSlash(as_posix(f))
    /\ \A str \in ResultFileIds : ~StartsWithSlash(str)

\* C22 as amended: a FileId may contain a root component: it is constructed and
\* registered without error, and renders through as_posix to a string beginning
\* with "/" exactly when it has a root component followed by another component.
C22_RootRendersAsLeadingSlash ==
    /\ \A f \in StoredFileIds :
            StartsWithSlash(as_posix(f)) <=> (f.abs /\ f.parts # <<>>)
    /\ (last_call.op = "define" /\ last_call.targets # <<>>) =>
            /\ ~last_call.panicked
            /\ last_call.pageid \in StoredFileIds
    /\ last_call.op = "get" =>
            \A j \in 1..Len(last_call.results) :
                StartsWithSlash(last_call.results[j].result[1])
                    <=> last_call.before[normalize_target(last_call.key)][j].fileid.abs

\* the FileId made from "/foo/bar" is in the database and a lookup has returned
\* it as "/foo/bar"
C22_Witness ==
    /\ last_call.op = "get"
    /\ \E f \in StoredFileIds : f.abs
    /\ <<"/", "f", "o", "o", "/", "b", "a", "r">> \in ResultFileIds

----------------------------------------------------------------------------
(* Claims about collisions between bundles *)

\* the pairs of output entries written for elements of two different bundles
EntriesOfTwoBundles ==
    {<<i, j>> \in (1..Len(out_bundle)) \X (1..Len(out_bundle)) :
        /\ i < j
        /\ out_bundle[i].src[1] # 0
        /\ out_bundle[i].src[1] # out_bundle[j].src[1]}

\* C23: migration makes bundles collision-free: for input bundles whose
\* (project, branch) metadata are pairwise different, no Document or Diagnostics
\* element of one bundle is written at the output path of an element of another
\* bundle, and no two Documents of different bundles have the same page_id.
C23_BundlesCollisionFree ==
    (\A b, c \in Bundles : b # c => bundles[b].metadata # bundles[c].metadata) =>
        \A p \in EntriesOfTwoBundles :
            LET e == out_bundle[p[1]]
                f == out_bundle[p[2]]
            IN  /\ e.path # f.path
                /\ (e.data.kind = "Document" /\ f.data.kind = "Document") =>
                        e.data.document.page_id # f.data.document.page_id

----------------------------------------------------------------------------
(* Further claims about the link phase *)

RECURSIVE SoloNodes(_, _, _)
\* the nodes one job enters when it runs over the archive of bundle b alone,
\* from entry idx on, in the order of iteration and traversal
SoloNodes(b, archive, idx) ==
    LET r == BundleNext(b, archive, idx)
    IN  IF r.item = None THEN <<>>
        ELSE IF ~r.item[1].ok THEN <<>>
        ELSE (IF r.item[1].value.data.kind = "Document"
              THEN Preorder(r.item[1].value.data.document.ast)
              ELSE <<>>) \o SoloNodes(b, archive, r.index)

RECURSIVE SoloTargets(_, _)
\* the Targets among `nodes` as one single-threaded pass that starts with the
\* counters `counter` leaves them
SoloTargets(nodes, counter) ==
    IF nodes = <<>> THEN <<>>
    ELSE LET node == Head(nodes)
         IN  IF node.type # "target" THEN SoloTargets(Tail(nodes), counter)
             ELSE IF ChosenId(node) = None
                  THEN <<node>> \o SoloTargets(Tail(nodes), counter)
                  ELSE LET d == Disambiguate(counter,
                                             CandidateHtmlId(node, ChosenId(node)[1]))
                       IN  <<[node EXCEPT !.html_id = Some(d.html_id)]>>
                                \o SoloTargets(Tail(nodes), d.counter)

IsPrefix(s, t) == Len(s) <= Len(t) /\ SubSeq(t, 1, Len(s)) = s

\* C24: the html_id link assigns to a Target of a bundle depends only on that
\* bundle's own documents in iteration order: under every interleaving and
\* whatever the other bundles hold, the Targets a job has entered carry the
\* html_ids a single-threaded pass over that bundle alone assigns.
C24_LinkHtmlIdsDeterministic ==
    \A b \in LinkJobs :
        IsPrefix(link_visited[b],
                 SoloTargets(SoloNodes(b, link_bundles[b].archive, 1), <<>>))

\* two jobs run side by side on Targets with the same candidate: one holds the
\* lock, the other waits for it, both have assigned the same html_id
C24_Witness ==
    /\ link_pc[1] = "lock" /\ link_task[1] = "running"
    /\ link_pc[2] = "define" /\ link_task[2] = "running"
    /\ link_bundles[1] # link_bundles[2]
    /\ link_visited[1] # <<>> /\ link_visited[2] # <<>>
    /\ link_visited[1][1].html_id = link_visited[2][1].html_id
    /\ link_visited[1][1].html_id # None

----------------------------------------------------------------------------
(* Claims about the traversal *)

\* where in the log the visitor was called with `hook` on the node at `path`
CallsOf(hook, path) ==
    {i \in 1..Len(trav_log) : trav_log[i].hook = hook /\ trav_log[i].path = path}

RECURSIVE PathsOf(_)
\* the paths of the nodes below `node` (itself included) that get_children leads to
PathsOf(node) ==
    LET ch == get_children(node)
    IN  {<<>>} \cup UNION {{<<k>> \o q : q \in PathsOf(ch[k])} : k \in 1..Len(ch)}

Parent(path) == SubSeq(path, 1, Len(path) - 1)
Last(path) == path[Len(path)]

\* C25: enter_node is called on a node before enter_node on any of its
\* descendants, exit_node after exit_node on all of them; the children of a node
\* are visited in stored order, one subtree after the other; every enter_node
\* is matched by exactly one later exit_node on the same node, and the pairs
\* are properly nested.
C25_TraversalOrder ==
    /\ \A i \in 1..Len(trav_log) :
        LET c == trav_log[i]
        IN  /\ CallsOf(c.hook, c.path) = {i}
            /\ c.path \in PathsOf(trav_tree)
            /\ c.hook = "exit_node" =>
                    /\ \E j \in CallsOf("enter_node", c.path) : j < i
                    /\ \A q \in PathsOf(NodeAt(trav_tree, c.path)) :
                            \E j \in CallsOf("exit_node", c.path \o q) : j <= i
            /\ (c.hook = "enter_node" /\ c.path # <<>>) =>
                    /\ \E j \in CallsOf("enter_node", Parent(c.path)) : j < i
                    /\ \A j \in CallsOf("exit_node", Parent(c.path)) : j > i
                    /\ Last(c.path) > 1 =>
                            \E j \in CallsOf("exit_node", Parent(c.path) \o <<Last(c.path) - 1>>) :
                                j < i
    /\ TravReturned =>
            \A q \in PathsOf(trav_tree) :
                CallsOf("enter_node", q) # {} /\ CallsOf("exit_node", q) # {}

\* a traversal has returned from a tree with two children under its root, the
\* first of them with a grandchild
C25_Witness ==
    /\ TravReturned
    /\ <<1, 1, 1>> \in PathsOf(trav_tree)
    /\ <<2>> \in PathsOf(trav_tree)
    /\ Len(trav_log) = 2 * Cardinality(PathsOf(trav_tree))

\* the fileids of the Roots on the way from the node the traversal started on
\* to the node at `path`, that node included, outermost first
RootsAlong(path) ==
    LET OnWay == [k \in 0..Len(path) |-> NodeAt(trav_tree, SubSeq(path, 1, k))]
        IsRoot == [k \in 1..(Len(path) + 1) |-> OnWay[k - 1].type = "root"]
        fileids == [k \in 1..(Len(path) + 1) |->
                        IF IsRoot[k] THEN OnWay[k - 1].fileid ELSE RelPath(<<>>)]
    IN  SelectIdx(fileids, IsRoot, 1)

\* C26: whenever enter_node or exit_node is called on a node, the stack holds
\* exactly the fileids of the Root nodes on the path from the traversal root to
\* that node, itself included, outermost first; the stack is empty again when
\* run_analyzer returns.
C26_StackIsRootAncestry ==
    /\ \A i \in 1..Len(trav_log) : trav_log[i].stack = RootsAlong(trav_log[i].path)
    /\ TravReturned => fileid_stack = <<>>

\* a traversal has returned that called the visitor under three nested Roots
\* and, after them, on a later child under the outermost Root only
C26_Witness ==
    /\ TravReturned
    /\ \E i, j \in 1..Len(trav_log) :
            /\ i < j
            /\ Len(trav_log[i].stack) = 3
            /\ trav_log[j].hook = "enter_node"
            /\ Len(trav_log[j].stack) = 1
            /\ trav_log[j].path # <<>>

RECURSIVE Sum(_)
Sum(ns) == IF ns = <<>> THEN 0 ELSE Head(ns) + Sum(Tail(ns))

RECURSIVE OwnedNodes(_)
\* how many nodes `node` owns, itself included, through every node-valued
\* field: the children of every variant that has them, a Directive's argument,
\* a DefinitionListItem's term
OwnedNodes(node) ==
    LET Each(nodes) == Sum([i \in 1..Len(nodes) |-> OwnedNodes(nodes[i])])
    IN  CASE node.type = "text" -> 1
          [] node.type = "directive" -> 1 + Each(node.children) + Each(node.argument)
          [] node.type = "definitionListItem" -> 1 + Each(node.children) + Each(node.term)
          [] OTHER -> 1 + Each(node.children)

\* C27: the traversal applies the visitor to every node of the document exactly
\* once: every node the tree owns through any node-valued field (children, the
\* children of a RefRole or an InlineTarget, a Directive's argument, a
\* DefinitionListItem's term) has been passed to enter_node when it returns.
C27_EveryOwnedNodeEntered ==
    TravReturned =>
        /\ Cardinality({i \in 1..Len(trav_log) : trav_log[i].hook = "enter_node"})
                = OwnedNodes(trav_tree)
        /\ \A i \in 1..Len(trav_log) : CallsOf(trav_log[i].hook, trav_log[i].path) = {i}

----------------------------------------------------------------------------
(* Claims about the aliases of one Target *)

\* all raw identifiers of all TargetIdentifier children of Target t
AllRawIds(t) == UNION {Range(l) : l \in Range(IdLists(t))}

\* C28: for a Target with several TargetIdentifier children, every
\* LocalDefinition registered for it carries the same canonical_name, one with
\* the most '.' characters among all raw identifiers of all its
\* TargetIdentifier children, and the same html_id.
C28_OneCanonicalNamePerTarget ==
    \A i \in Assigned : \A d \in AllDefinitions :
        /\ d.html5_id = visited[i].html_id[1]
        /\ d.canonical_name \in AllRawIds(visited[i])
        /\ \A id \in AllRawIds(visited[i]) : CountDots(id) <= CountDots(d.canonical_name)
        /\ \A e \in AllDefinitions : e.canonical_name = d.canonical_name

----------------------------------------------------------------------------
(* Further claims about migration *)

RECURSIVE OwnedSet(_)
\* the nodes `node` owns, itself included, through every node-valued field
OwnedSet(node) ==
    LET Each(nodes) == UNION {OwnedSet(nodes[i]) : i \in 1..Len(nodes)}
    IN  CASE node.type = "text" -> {node}
          [] node.type = "directive" -> {node} \cup Each(node.children) \cup Each(node.argument)
          [] node.type = "definitionListItem" ->
                {node} \cup Each(node.children) \cup Each(node.term)
          [] OTHER -> {node} \cup Each(node.children)

\* path lies under ns: ns is a leading prefix of its components
HasPathPrefix(path, ns) == path.abs = ns.abs /\ IsPrefix(ns.parts, path.parts)

\* C29: after migrate(ns) every path-shaped identifier of the element has ns as
\* a leading path prefix: the storage name, and for a Document its page_id,
\* every Root fileid and every resolved RefRole fileid, whatever they were
\* before, relative or beginning with a root separator.
C29_NamespaceIsLeadingPrefix ==
    applied >= 1 =>
        /\ HasPathPrefix(element.name, namespace)
        /\ element.data.kind = "Document" =>
                /\ HasPathPrefix(element.data.document.page_id, namespace)
                /\ \A n \in OwnedSet(element.data.document.ast) :
                        /\ n.type = "root" => HasPathPrefix(n.fileid, namespace)
                        /\ (n.type = "ref_role" /\ n.fileid # None) =>
                                HasPathPrefix(n.fileid[1][1], namespace)

----------------------------------------------------------------------------
(* Termination of the splice phase *)

\* every entry of every input bundle decodes, and every asset has a file name
WellFormedInputs ==
    \A b \in Bundles : \A idx \in 1..Len(bundles[b].archive) :
        LET r == BundleNext(b, bundles[b].archive, idx)
        IN  r.item # None =>
                /\ r.item[1].ok
                /\ r.item[1].value.data.kind = "Asset" =>
                        file_name(r.item[1].value.name) # None

\* splice has returned Ok: every producer has finished, the sentinel was
\* received, the writer has finalized the archive
SpliceSucceeded ==
    /\ main = "returned_ok"
    /\ \A b \in Bundles : task[b] = "done"
    /\ channel = <<>>
    /\ writer = "finished"
    /\ sealed

\* C30: when every input item is well formed and every archive write succeeds,
\* splice terminates under fair scheduling, for every pool size and also when
\* the channel fills up: every producer finishes, the sentinel is delivered,
\* the writer finalizes the archive and splice returns success.
C30_SpliceTerminates == WellFormedInputs => <>SpliceSucceeded

\* a splice of well-formed bundles on one worker thread has returned Ok: all
\* assets of the large bundle, one more than the channel holds, are written
C30_Witness ==
    /\ WellFormedInputs
    /\ SpliceSucceeded
    /\ n_cpus = 1
    /\ Cardinality(stored_assets) = Capacity + 1

----------------------------------------------------------------------------
(* Claims about link followed by splice *)

\* the archive entry the link job of bundle b has read last
LinkEntry(b) == link_bundles[b].archive[link_index[b] - 1]

\* the link job of bundle b is inside a Document of its bundle
LinkInDocument(b) ==
    /\ link_index[b] > 1
    /\ Head(LinkEntry(b).enclosed_name[1].parts) = "documents"
    /\ LinkEntry(b).body.kind = "document"

\* the html ids of the Targets of a Document, in traversal order
HtmlIds(document) ==
    LET targets == SelectSeq(Preorder(document.ast), LAMBDA n : n.type = "target")
    IN  [k \in 1..Len(targets) |-> targets[k].html_id]

\* the html ids the link job of bundle b left in the Targets it entered (a
\* bundle of StitchBundles has at most one Document, and link assigns each of
\* its Targets an html id other than the stored one)
LinkHtmlIds(b) == [k \in DOMAIN link_visited[b] |-> link_visited[b][k].html_id]

\* the Document the input archive of bundle b holds at entry idx
ArchiveDocument(b, idx) == link_bundles[b].archive[idx].body.document

\* the Documents splice has read so far: those in the channel and those written
SplicedDocuments ==
    {channel[i][1] : i \in {j \in 1..Len(channel) :
                                /\ ~IsSentinel(channel[j])
                                /\ channel[j][1].data.kind = "Document"}}
        \cup {out_bundle[i] : i \in {j \in 1..Len(out_bundle) :
                                        /\ out_bundle[j] # SiteEntry
                                        /\ out_bundle[j].data.kind = "Document"}}

\* C31: the link phase changes nothing but the Target Database.  No step changes
\* the input bundles; a registration is made only by a job that is inside a
\* Document, so Asset and Diagnostics entries register nothing, and the database
\* changes by registrations only, until it is dropped; and a splice run
\* after link on the same bundles reads them as they were given: every Document
\* it sends or writes carries the html ids stored in the input archive, not the
\* ones link assigned.
C31_LinkChangesOnlyDatabase ==
    /\ [][/\ link_bundles' = link_bundles
          /\ Len(db_log') > Len(db_log) =>
                \E b \in LinkJobs : link_pc[b] = "define" /\ LinkInDocument(b)
          /\ local_definitions' # local_definitions =>
                Len(db_log') > Len(db_log) \/ local_definitions' = <<>>]_vars
    /\ [](/\ \A b \in LinkJobs : link_pc[b] # "iterate" => LinkInDocument(b)
          /\ main # "not_started" => bundles = link_bundles
          /\ \A e \in SplicedDocuments :
                /\ HtmlIds(e.data.document) = HtmlIds(ArchiveDocument(e.src[1], e.src[2]))
                /\ HtmlIds(e.data.document) # LinkHtmlIds(e.src[1]))

\* link and splice have both returned Ok on a bundle with an Asset and a
\* Document and a bundle of Diagnostics; link entered no Target of the second
\* and assigned an html id to both Targets of the first, and the Document
\* splice wrote carries the stored ones: none, and the old one
C31_Witness ==
    /\ link_main = "returned_ok"
    /\ main = "returned_ok"
    /\ \E b, c \in LinkJobs :
        /\ \E i \in DOMAIN link_bundles[b].archive :
                Head(link_bundles[b].archive[i].enclosed_name[1].parts) = "assets"
        /\ \E i \in DOMAIN link_bundles[c].archive :
                Head(link_bundles[c].archive[i].enclosed_name[1].parts) = "diagnostics"
        /\ link_visited[c] = <<>>
        /\ \E e \in SplicedDocuments :
            /\ e.src[1] = b
            /\ HtmlIds(e.data.document) = <<None, Some(OldId)>>
            /\ \A k \in 1..2 : LinkHtmlIds(b)[k] \notin {None, Some(OldId)}
====
